---- MODULE Spec2Model ----
(***************************************************************************)
(* Lead acquisition pipeline: the enrichment service (analyzeLead) with    *)
(* its daily quota guard, retry loop, reply extraction and heuristic       *)
(* fallbacks, modelled from backend/src/services/ai/geminiService.ts.      *)
(* That file holds three revisions of the service one after the other; the *)
(* model follows the first (lines 1-330), the one with the repair pass.    *)
(*                                                                         *)
(* The host is a single-threaded event loop: the code between two awaits   *)
(* of one invocation runs without interleaving, so every action below is   *)
(* one such synchronous segment of one invocation.                         *)
(***************************************************************************)
EXTENDS Integers, Sequences, FiniteSets, TLC

\* ---------------------------------------------------------------- bounds
\* Number of analyzeLead invocations that may be in flight together.
NumProcs == 2
\* Number of UTC day rollovers observed.
MaxDay == 1
\* process.env.SAMBA_DAILY_LIMIT (default 240), scaled down.
SAMBA_DAILY_LIMIT == 2
\* process.env.SAMBA_MAX_RETRIES (default 3), scaled down.
maxRetries == 1
\* process.env.SAMBA_MIN_DELAY_MS default.
minDelayMs == 150

Procs == 1..NumProcs
Days == 0..MaxDay

\* ------------------------------------------------------------ value sets
\* A missing optional number (leadData.rating, leadData.reviewCount).
Undefined == -1
\* A missing optional string (leadData.website, a missing JSON member).
UndefinedStr == "undefined"

\* leadData as far as analyzeLead reads it outside the prompt.
LeadData(rating, reviewCount, website) ==
    [rating |-> rating, reviewCount |-> reviewCount, website |-> website]

\* The leads handed to analyzeLead by the invocations of the pipeline: two
\* that differ only in how the missing website is written, and one with a
\* website and no rating.
Leads ==
    { LeadData(4, 50, UndefinedStr),
      LeadData(4, 50, ""),
      LeadData(Undefined, 60, "https://x") }

\* Every shape of lead the heuristic is evaluated on.
AllLeads ==
    { LeadData(r, n, w) : r \in {Undefined} \cup 0..5,
                          n \in {Undefined, 0, 49, 50, 51},
                          w \in {UndefinedStr, "", "https://x"} }

\* x ?? 0
OrZero(x) == IF x = Undefined THEN 0 ELSE x

\* Boolean(leadData.website)
HasWebsite(lead) == lead.website \notin {UndefinedStr, ""}

\* An AIAnalysis value.
Analysis(score, leadType, reason, whatToSell, hook, followUp, prob, pains, ideal) ==
    [score |-> score, leadType |-> leadType, reason |-> reason,
     whatToSell |-> whatToSell, firstMessageHook |-> hook,
     followUpMessage |-> followUp, conversionProbability |-> prob,
     painPoints |-> pains, idealSolution |-> ideal]

\* The value of `result` while an invocation has not returned.
NoAnalysis == Analysis(Undefined, UndefinedStr, "", <<>>, "", "", Undefined, <<>>, "")

\* geminiService.ts 131-141: the reply when no key is configured.
NoKeyAnalysis ==
    Analysis(0, "cold", "SAMBA_API_KEY not configured", <<>>, "", "", 0, <<>>, "")

\* The quota fallback with the rating threshold exclusive.
QuotaFallbackStrictRating(leadData) ==
    LET rating == OrZero(leadData.rating)
        reviews == OrZero(leadData.reviewCount)
        hasWebsite == HasWebsite(leadData)
        isHot == rating > 4 /\ reviews >= 50 /\ ~hasWebsite
    IN Analysis(
         IF isHot THEN 85 ELSE 60,
         IF isHot THEN "hot" ELSE IF hasWebsite THEN "warm" ELSE "cold",
         "", <<>>, "", "",
         IF isHot THEN 40 ELSE 15,
         <<>>, "")

\* geminiService.ts 145-168: the fallback of the quota-exhausted branch.
QuotaFallback(leadData) ==
    LET rating == OrZero(leadData.rating)
        reviews == OrZero(leadData.reviewCount)
        hasWebsite == HasWebsite(leadData)
        isHot == rating >= 4 /\ reviews >= 50 /\ ~hasWebsite
    IN Analysis(
         IF isHot THEN 85 ELSE 60,
         IF isHot THEN "hot" ELSE IF hasWebsite THEN "warm" ELSE "cold",
         IF isHot THEN "Strong Google presence but no website."
         ELSE IF hasWebsite THEN "Business is established but can be improved."
         ELSE "Weak or limited online signals.",
         IF hasWebsite THEN <<"Website Redesign", "Performance Marketing">>
         ELSE <<"Website Development", "SEO", "Google Leads CRM">>,
         IF hasWebsite
         THEN "We help local businesses convert more visitors into customers."
         ELSE "Loved your Google reviews-noticed you don't have a website yet.",
         "Checking in to see if you received my previous message regarding your business growth.",
         IF isHot THEN 40 ELSE 15,
         IF hasWebsite THEN <<"Outdated design", "Slow loading">>
         ELSE <<"No online presence", "Missing local leads">>,
         IF hasWebsite THEN "Complete website overhaul and SEO"
         ELSE "New conversion-focused website")

\* A drifted copy of the failure fallback: review threshold exclusive.
FailureFallbackDrift(leadData) ==
    LET rating == OrZero(leadData.rating)
        reviews == OrZero(leadData.reviewCount)
        hasWebsite == HasWebsite(leadData)
        isHot == rating >= 4 /\ reviews > 50 /\ ~hasWebsite
    IN [QuotaFallback(leadData) EXCEPT
          !.score = IF isHot THEN 85 ELSE 60,
          !.leadType = IF isHot THEN "hot" ELSE IF hasWebsite THEN "warm" ELSE "cold",
          !.conversionProbability = IF isHot THEN 40 ELSE 15]

\* geminiService.ts 305-328: the fallback of the catch block.
FailureFallback(leadData) ==
    LET rating == OrZero(leadData.rating)
        reviews == OrZero(leadData.reviewCount)
        hasWebsite == HasWebsite(leadData)
        isHot == rating >= 4 /\ reviews >= 50 /\ ~hasWebsite
    IN Analysis(
         IF isHot THEN 85 ELSE 60,
         IF isHot THEN "hot" ELSE IF hasWebsite THEN "warm" ELSE "cold",
         IF isHot THEN "Strong Google presence but no website."
         ELSE IF hasWebsite THEN "Business is established but can be improved."
         ELSE "Weak or limited online signals.",
         IF hasWebsite THEN <<"Website Redesign", "Performance Marketing">>
         ELSE <<"Website Development", "SEO", "Google Leads CRM">>,
         IF hasWebsite
         THEN "We help local businesses convert more visitors into customers."
         ELSE "Loved your Google reviews-noticed you don't have a website yet.",
         "Checking in to see if you received my previous message regarding your business growth.",
         IF isHot THEN 40 ELSE 15,
         IF hasWebsite THEN <<"Outdated design", "Slow loading">>
         ELSE <<"No online presence", "Missing local leads">>,
         IF hasWebsite THEN "Complete website overhaul and SEO"
         ELSE "New conversion-focused website")

\* ------------------------------------------------- replies of the endpoint
\* JSON objects the model of the endpoint may put in choices[0].message.content.
ReplyObjects ==
    { Analysis(90, "hot", "ai", <<"Web">>, "hi", "ping", 70, <<"none">>, "site"),
      Analysis(150, "warm", "ai", <<"Web">>, "hi", "ping", -5, <<"none">>, "site"),
      Analysis(50, "lukewarm", "ai", <<"Web">>, "hi", "ping", 50, <<"none">>, "site"),
      Analysis(50, UndefinedStr, "ai", <<"Web">>, "hi", "ping", 50, <<"none">>, "site") }

\* How the object is written in the reply text:
\*   plain    - strict JSON, possibly inside prose
\*   fenced   - in a code fence, with a trailing comma
\*   curly    - string delimiters written as curly double quotes
\*   barekeys - unquoted keys or comments: only the repair pass fixes it
\*   broken   - has a {...} span that no pass makes parse
\*   nospan   - no '{' followed by a later '}'
TextForms == {"plain", "fenced", "curly", "barekeys", "broken", "nospan"}

RawText(form, obj) == [form |-> form, obj |-> obj]

\* What `await res.json()` and data?.choices?.[0]?.message?.content yield:
\*   kind "reject"  - the body is not JSON, res.json() rejects
\*   kind "empty"   - content missing or ""
\*   kind "text"    - content is the text `text`
Bodies ==
    { [kind |-> k, text |-> RawText("plain", NoAnalysis)] : k \in {"reject", "empty"} }
    \cup { [kind |-> "text", text |-> RawText(f, o)] : f \in TextForms, o \in ReplyObjects }

\* The outcome of a throwing function: a value or an exception.
Ok(v) == [ok |-> TRUE, value |-> v]
Throw(v) == [ok |-> FALSE, value |-> v]

\* geminiService.ts 41-76. The fences and the trailing comma are removed; the
\* character class of line 68 holds two straight quotes, so curly double
\* quotes are left as they are.
normalizeJsonLike(text) ==
    IF text.form = "nospan" THEN Throw(text)
    ELSE IF text.form = "fenced" THEN Ok(RawText("plain", text.obj))
    ELSE Ok(text)

\* geminiService.ts 78-91
repairCommonJsonIssues(text) ==
    IF text.form = "barekeys" THEN RawText("plain", text.obj) ELSE text

\* JSON.parse
JSONparse(text) ==
    IF text.form = "plain" THEN Ok(text.obj) ELSE Throw(NoAnalysis)

\* geminiService.ts 98-115
extractJSON(text) ==
    LET raw == normalizeJsonLike(text)
    IN IF ~raw.ok THEN Throw(NoAnalysis)
       ELSE IF JSONparse(raw.value).ok THEN JSONparse(raw.value)
       ELSE JSONparse(repairCommonJsonIssues(raw.value))

\* ------------------------------------------------------------------ state
VARIABLES
    SAMBA_API_KEY,      \* the configured credential ("" when none)
    today,              \* the UTC day new Date() reports
    dailyRequestCount,  \* geminiService.ts 5
    dailyWindowDate,    \* geminiService.ts 6
    inv,                \* the analyzeLead invocations, one record each
    grantedOn,          \* history: per day, the guard calls that returned true
    requestsToday,      \* history: the fetch calls issued on the current day
    hLead, hOut,        \* the heuristic evaluated directly on one lead
    dBatch, dOut,       \* the duplicate filter applied to one merged batch
    nIn, nText, nOut,   \* extractJSON applied to one rendered reply text
    run,                \* one request to a scraper endpoint of index.ts
    store,              \* the Lead collection
    readyState,         \* mongoose.connection.readyState
    lim,                \* the limits one request hands to its adapters
    scraperInstance,    \* googleMapsScraper.ts 300
    scrapers,           \* the GoogleMapsScraper objects constructed
    browsers,           \* the browsers puppeteer.launch has returned
    calls,              \* the invocations of scrapeGoogleMaps
    runs                \* requests served at the same time on one store

vars == <<SAMBA_API_KEY, today, dailyRequestCount, dailyWindowDate, inv,
          grantedOn, requestsToday, hLead, hOut, dBatch, dOut, nIn, nText,
          nOut, run, store, readyState, lim, scraperInstance, scrapers,
          browsers, calls, runs>>

quotaVars == <<dailyRequestCount, dailyWindowDate, grantedOn>>

dedupVars == <<dBatch, dOut>>

normVars == <<nIn, nText, nOut>>

acqVars == <<run, store, readyState>>

limVars == <<lim>>

scraperVars == <<scraperInstance, scrapers, browsers, calls>>

extraVars == <<limVars, scraperVars, runs>>

\* What the analysis service leaves alone: the pipeline around it.
pipeVars == <<dedupVars, normVars, acqVars, extraVars>>

\* An invocation that is not running.
Idle ==
    [pc |-> "idle", lead |-> LeadData(Undefined, Undefined, UndefinedStr),
     attempt |-> 0, status |-> 0, sent |-> 0, via |-> "none", result |-> NoAnalysis]

\* geminiService.ts 8-19, wrong comparison: lets one call too many through.
checkAndIncrementDailyLimitOffByOne(now, windowDate, count) ==
    LET c == IF now # windowDate THEN 0 ELSE count
    IN IF c > SAMBA_DAILY_LIMIT
       THEN [ok |-> FALSE, windowDate |-> now, count |-> c]
       ELSE [ok |-> TRUE, windowDate |-> now, count |-> c + 1]

\* geminiService.ts 8-19, without the day rollover.
checkAndIncrementDailyLimitNoReset(now, windowDate, count) ==
    IF count >= SAMBA_DAILY_LIMIT
    THEN [ok |-> FALSE, windowDate |-> windowDate, count |-> count]
    ELSE [ok |-> TRUE, windowDate |-> windowDate, count |-> count + 1]

\* geminiService.ts 8-19: the return value and the two module variables after.
checkAndIncrementDailyLimit(now, windowDate, count) ==
    LET d == IF now # windowDate THEN now ELSE windowDate
        c == IF now # windowDate THEN 0 ELSE count
    IN IF c >= SAMBA_DAILY_LIMIT
       THEN [ok |-> FALSE, windowDate |-> d, count |-> c]
       ELSE [ok |-> TRUE, windowDate |-> d, count |-> c + 1]

\* The catch block, rethrowing instead of falling back.
OnErrorRethrow(r) ==
    [r EXCEPT !.pc = "threw", !.via = "failure"]

\* geminiService.ts 301-329: every exception of the try block ends here.
OnError(r) ==
    [r EXCEPT !.pc = "done", !.via = "failure", !.result = FailureFallback(r.lead)]

\* The first await of a loop iteration (geminiService.ts 214-223).
IterationStart(attempt) ==
    IF attempt > 0 THEN "backoff" ELSE IF minDelayMs > 0 THEN "pacing" ELSE "fetch"

\* The retry decision that retries after any non-ok response.
RetryDecisionAnyError(status, attempt) ==
    IF attempt < maxRetries THEN "retry" ELSE "throw"

\* The retry decision with an unbounded loop.
RetryDecisionUnbounded(status, attempt) ==
    IF status = 429 THEN "retry" ELSE "throw"

\* geminiService.ts 213 and 254-260: what follows a non-ok response.
RetryDecision(status, attempt) ==
    IF status = 429 /\ attempt < maxRetries
    THEN (IF attempt + 1 <= maxRetries THEN "retry" ELSE "exhausted")
    ELSE "throw"

\* analyzeLead's entry with the guard's return value ignored.
analyzeLeadEntryIgnoreQuota(key, now, windowDate, count) ==
    IF key = ""
    THEN [branch |-> "nokey", windowDate |-> windowDate, count |-> count,
          granted |-> FALSE]
    ELSE LET g == checkAndIncrementDailyLimit(now, windowDate, count)
         IN [branch |-> "call", windowDate |-> g.windowDate, count |-> g.count,
             granted |-> g.ok]

\* analyzeLead's entry with the quota consulted before the credential.
analyzeLeadEntryQuotaFirst(key, now, windowDate, count) ==
    LET g == checkAndIncrementDailyLimit(now, windowDate, count)
    IN [branch |-> IF key = "" THEN "nokey" ELSE IF g.ok THEN "call" ELSE "quota",
        windowDate |-> g.windowDate, count |-> g.count, granted |-> g.ok]

\* geminiService.ts 130-169: the branch analyzeLead takes before the try block
\* and what it leaves in the two module variables.
analyzeLeadEntry(key, now, windowDate, count) ==
    IF key = ""
    THEN [branch |-> "nokey", windowDate |-> windowDate, count |-> count,
          granted |-> FALSE]
    ELSE LET g == checkAndIncrementDailyLimit(now, windowDate, count)
         IN [branch |-> IF g.ok THEN "call" ELSE "quota",
             windowDate |-> g.windowDate, count |-> g.count, granted |-> g.ok]

\* geminiService.ts 213-246: enter iteration `attempt` of the loop and run to
\* its first await; with no pacing delay the request is issued at once.
StartIteration(r, attempt) ==
    IF IterationStart(attempt) = "fetch"
    THEN [r EXCEPT !.attempt = attempt, !.pc = "fetching", !.sent = @ + 1]
    ELSE [r EXCEPT !.attempt = attempt, !.pc = IterationStart(attempt)]

\* geminiService.ts 221-246: after the backoff sleep.
AfterBackoff(r) ==
    IF minDelayMs > 0 THEN [r EXCEPT !.pc = "pacing"]
    ELSE [r EXCEPT !.pc = "fetching", !.sent = @ + 1]

\* geminiService.ts 267-299: the reply body is read, extracted and logged.
HandleBody(r, b) ==
    IF b.kind # "text" THEN OnError(r)
    ELSE LET e == extractJSON(b.text)
         IN IF ~e.ok THEN OnError(r)
            \* analysis.leadType.toUpperCase() on a missing leadType
            ELSE IF e.value.leadType = UndefinedStr THEN OnError(r)
            ELSE [r EXCEPT !.pc = "done", !.via = "ai", !.result = e.value]

\* Replace invocation p's record; fetch calls it issued are counted today.
Update(p, r) ==
    /\ inv' = [inv EXCEPT ![p] = r]
    /\ requestsToday' = requestsToday + (r.sent - inv[p].sent)

Statuses == {0, 200, 429, 500}

\* ------------------------------------------ the pipeline when it is idle
\* No batch has been filtered.
DedupIdle ==
    /\ dBatch = <<>>
    /\ dOut = [via |-> "none"]

\* No reply text has been read.
NormIdle ==
    /\ nIn = [via |-> "none"]
    /\ nText = <<>>
    /\ nOut = [via |-> "none"]

\* No request to a scraper endpoint is being served.
AcqIdle ==
    /\ run = [pc |-> "none"]
    /\ store = {}
    /\ readyState = 1

\* No request is having its limit split.
LimIdle == lim = [via |-> "none"]

\* scrapeGoogleMaps has not been called.
ScraperIdle ==
    /\ scraperInstance = 0
    /\ scrapers = <<>>
    /\ browsers = <<>>
    /\ calls = <<>>

\* No two requests are being served together.
RunsIdle == runs = <<>>

ExtraIdle == LimIdle /\ ScraperIdle /\ RunsIdle

PipeIdle == DedupIdle /\ NormIdle /\ AcqIdle /\ ExtraIdle

\* The analysis service as it is when the module has just been loaded.
AnalyzerIdle ==
    /\ SAMBA_API_KEY = "194a4a17"
    /\ today = 0
    /\ dailyRequestCount = 0
    /\ dailyWindowDate = 0
    /\ inv = [p \in Procs |-> Idle]
    /\ grantedOn = [d \in Days |-> 0]
    /\ requestsToday = 0
    /\ hLead = LeadData(Undefined, Undefined, UndefinedStr)
    /\ hOut = [via |-> "none", value |-> NoAnalysis]

\* ---------------------------------------------------------------- actions
Init ==
    /\ SAMBA_API_KEY \in {"", "194a4a17"}
    /\ today = 0
    /\ dailyRequestCount = 0
    /\ dailyWindowDate = 0
    /\ inv = [p \in Procs |-> Idle]
    /\ grantedOn = [d \in Days |-> 0]
    /\ requestsToday = 0
    /\ hLead = LeadData(Undefined, Undefined, UndefinedStr)
    /\ hOut = [via |-> "none", value |-> NoAnalysis]
    /\ PipeIdle

\* The UTC date changes.
Tick ==
    /\ today < MaxDay
    /\ today' = today + 1
    /\ requestsToday' = 0
    /\ UNCHANGED <<SAMBA_API_KEY, quotaVars, inv, hLead, hOut>>
    /\ UNCHANGED pipeVars

\* analyzeLead(leadData) is called: geminiService.ts 130-223.
Call(p, leadData) ==
    /\ inv[p].pc = "idle"
    /\ LET e == analyzeLeadEntry(SAMBA_API_KEY, today, dailyWindowDate, dailyRequestCount)
           r == [inv[p] EXCEPT !.lead = leadData]
       IN /\ dailyWindowDate' = e.windowDate
          /\ dailyRequestCount' = e.count
          /\ grantedOn' = IF e.granted THEN [grantedOn EXCEPT ![today] = @ + 1]
                          ELSE grantedOn
          /\ CASE e.branch = "nokey" ->
                    Update(p, [r EXCEPT !.pc = "done", !.via = "nokey",
                                        !.result = NoKeyAnalysis])
               [] e.branch = "quota" ->
                    Update(p, [r EXCEPT !.pc = "done", !.via = "quota",
                                        !.result = QuotaFallback(leadData)])
               [] OTHER -> Update(p, StartIteration(r, 0))
    /\ UNCHANGED <<SAMBA_API_KEY, today, hLead, hOut>>
    /\ UNCHANGED pipeVars

\* sleep(backoff + jitter) ends: geminiService.ts 217-223.
Backoff(p) ==
    /\ inv[p].pc = "backoff"
    /\ Update(p, AfterBackoff(inv[p]))
    /\ UNCHANGED <<SAMBA_API_KEY, today, quotaVars, hLead, hOut>>
    /\ UNCHANGED pipeVars

\* sleep(minDelayMs) ends and fetch is called: geminiService.ts 222-246.
Pacing(p) ==
    /\ inv[p].pc = "pacing"
    /\ Update(p, [inv[p] EXCEPT !.pc = "fetching", !.sent = @ + 1])
    /\ UNCHANGED <<SAMBA_API_KEY, today, quotaVars, hLead, hOut>>
    /\ UNCHANGED pipeVars

\* fetch settles: rejected (status 0) or a response: geminiService.ts 225-251.
Respond(p, status) ==
    /\ inv[p].pc = "fetching"
    /\ LET r == [inv[p] EXCEPT !.status = status]
       IN CASE status = 0 -> Update(p, OnError(r))
            [] status = 200 -> Update(p, [r EXCEPT !.pc = "json"])
            [] OTHER -> Update(p, [r EXCEPT !.pc = "errbody"])
    /\ UNCHANGED <<SAMBA_API_KEY, today, quotaVars, hLead, hOut>>
    /\ UNCHANGED pipeVars

\* res.text() of a non-ok response settles: geminiService.ts 251-260.
ErrBody(p, textRejects) ==
    /\ inv[p].pc = "errbody"
    /\ IF textRejects THEN Update(p, OnError(inv[p]))
       ELSE IF RetryDecision(inv[p].status, inv[p].attempt) = "retry"
       THEN Update(p, [inv[p] EXCEPT !.pc = "ratewait"])
       ELSE Update(p, OnError(inv[p]))
    /\ UNCHANGED <<SAMBA_API_KEY, today, quotaVars, hLead, hOut>>
    /\ UNCHANGED pipeVars

\* sleep(waitMs) ends, `continue`: geminiService.ts 256-257 and 213-218.
RateWait(p) ==
    /\ inv[p].pc = "ratewait"
    /\ Update(p, StartIteration(inv[p], inv[p].attempt + 1))
    /\ UNCHANGED <<SAMBA_API_KEY, today, quotaVars, hLead, hOut>>
    /\ UNCHANGED pipeVars

\* res.json() of an ok response settles: geminiService.ts 267-299.
Body(p, b) ==
    /\ inv[p].pc = "json"
    /\ Update(p, HandleBody(inv[p], b))
    /\ UNCHANGED <<SAMBA_API_KEY, today, quotaVars, hLead, hOut>>
    /\ UNCHANGED pipeVars

\* The caller receives the Analysis; the invocation is over.
Return(p) ==
    /\ inv[p].pc = "done"
    /\ inv' = [inv EXCEPT ![p] = Idle]
    /\ UNCHANGED <<SAMBA_API_KEY, today, quotaVars, requestsToday, hLead, hOut>>
    /\ UNCHANGED pipeVars

\* The steps of invocation p that its timers and the endpoint drive.
Progress(p) ==
    \/ Backoff(p)
    \/ Pacing(p)
    \/ \E status \in Statuses : Respond(p, status)
    \/ \E textRejects \in BOOLEAN : ErrBody(p, textRejects)
    \/ RateWait(p)
    \/ \E b \in Bodies : Body(p, b)

Next ==
    \/ Tick
    \/ \E p \in Procs, leadData \in Leads : Call(p, leadData)
    \/ \E p \in Procs : Progress(p)
    \/ \E p \in Procs : Return(p)

Spec == Init /\ [][Next]_vars

\* Timers fire and every request to the endpoint settles.
FairSpec == Spec /\ \A p \in Procs : WF_vars(Progress(p))

\* ------------------------------------------- the heuristic on its own
HInit ==
    /\ Init
    /\ SAMBA_API_KEY # ""

HChoose(leadData) ==
    /\ hOut.via = "none"
    /\ hLead' = leadData
    /\ UNCHANGED <<SAMBA_API_KEY, today, quotaVars, inv, requestsToday, hOut>>
    /\ UNCHANGED pipeVars

HQuota ==
    /\ hOut.via = "none"
    /\ hOut' = [via |-> "quota", value |-> QuotaFallback(hLead)]
    /\ UNCHANGED <<SAMBA_API_KEY, today, quotaVars, inv, requestsToday, hLead>>
    /\ UNCHANGED pipeVars

HFailure ==
    /\ hOut.via = "none"
    /\ hOut' = [via |-> "failure", value |-> FailureFallback(hLead)]
    /\ UNCHANGED <<SAMBA_API_KEY, today, quotaVars, inv, requestsToday, hLead>>
    /\ UNCHANGED pipeVars

HNext ==
    \/ \E leadData \in AllLeads : HChoose(leadData)
    \/ HQuota
    \/ HFailure

HeuristicSpec == HInit /\ [][HNext]_vars

\* ================================================================ claims
\* Invocation p is called in this step.
Called(p) == inv[p].pc = "idle" /\ inv'[p].pc # "idle"

Done(p) == inv[p].pc = "done"

\* C1: in every reachable state 0 <= dailyRequestCount <= SAMBA_DAILY_LIMIT and
\* the guard has returned true at most SAMBA_DAILY_LIMIT times on any one day;
\* a call made once the count is at the limit, on the stored day, is refused
\* and leaves the counter unchanged.
C1_QuotaCounterBounded ==
    /\ [](/\ dailyRequestCount >= 0
          /\ dailyRequestCount <= SAMBA_DAILY_LIMIT
          /\ \A d \in Days : grantedOn[d] <= SAMBA_DAILY_LIMIT)
    /\ [][\A p \in Procs :
            (/\ Called(p)
             /\ SAMBA_API_KEY # ""
             /\ dailyWindowDate = today
             /\ dailyRequestCount = SAMBA_DAILY_LIMIT)
            => (/\ dailyRequestCount' = dailyRequestCount
                /\ grantedOn' = grantedOn
                /\ inv'[p].via = "quota")]_vars

\* A call was refused on the stored day with the counter at the limit.
C1_Witness ==
    /\ dailyWindowDate = today
    /\ dailyRequestCount = SAMBA_DAILY_LIMIT
    /\ grantedOn[today] = SAMBA_DAILY_LIMIT
    /\ \E p \in Procs : Done(p) /\ inv[p].via = "quota"

\* C2: on any UTC day the fetch calls issued by all invocations, retries
\* included, number at most SAMBA_DAILY_LIMIT.
C2_RequestsWithinDailyLimit == requestsToday <= SAMBA_DAILY_LIMIT

\* C3: with the counter at the limit, a call on the stored day D is refused;
\* the first call on day D+1 stores D+1, resets the counter and is granted,
\* leaving the counter at 1.
C3_QuotaRollover ==
    [][\A p \in Procs :
         (/\ Called(p)
          /\ SAMBA_API_KEY # ""
          /\ SAMBA_DAILY_LIMIT >= 1
          /\ dailyRequestCount = SAMBA_DAILY_LIMIT)
         => /\ dailyWindowDate = today
               => (/\ inv'[p].via = "quota"
                   /\ dailyWindowDate' = dailyWindowDate
                   /\ dailyRequestCount' = dailyRequestCount)
            /\ today = dailyWindowDate + 1
               => (/\ dailyWindowDate' = today
                   /\ dailyRequestCount' = 1
                   /\ grantedOn'[today] = 1
                   /\ inv'[p].via = "none"
                   /\ inv'[p].pc \in {"pacing", "fetching"})]_vars

\* Day D ended with the counter at the limit and the first call of day D+1
\* was granted.
C3_Witness ==
    /\ today >= 1
    /\ grantedOn[today - 1] = SAMBA_DAILY_LIMIT
    /\ dailyWindowDate = today
    /\ dailyRequestCount = 1
    /\ grantedOn[today] = 1

\* C4: whatever the interleaving, at most SAMBA_DAILY_LIMIT invocations of one
\* day go on to the endpoint; every other one returns the quota fallback
\* having issued no request, whatever the state of the earlier invocations.
C4_AtMostLimitProceed ==
    /\ [](/\ \A d \in Days : grantedOn[d] <= SAMBA_DAILY_LIMIT
          /\ \A p \in Procs :
               /\ (Done(p) /\ inv[p].via = "quota")
                    => inv[p].sent = 0 /\ inv[p].result = QuotaFallback(inv[p].lead)
               /\ inv[p].sent > 0 => inv[p].via \in {"none", "ai", "failure"})
    /\ [][\A p \in Procs :
            (/\ Called(p)
             /\ SAMBA_API_KEY # ""
             /\ grantedOn[today] = SAMBA_DAILY_LIMIT)
            => (/\ inv'[p].pc = "done"
                /\ inv'[p].via = "quota"
                /\ requestsToday' = requestsToday)]_vars

\* One invocation is refused while an earlier one of the same day is still
\* waiting for the endpoint.
C4_Witness ==
    /\ grantedOn[today] = SAMBA_DAILY_LIMIT
    /\ \E p, q \in Procs :
         /\ p # q
         /\ Done(p) /\ inv[p].via = "quota" /\ inv[p].sent = 0
         /\ inv[q].pc = "fetching"

\* C5: no invocation ends by throwing, and every invocation that was called
\* returns an Analysis, whatever the endpoint answers.
C5_AlwaysReturns ==
    /\ [](\A p \in Procs :
            /\ inv[p].pc # "threw"
            /\ Done(p) => inv[p].result # NoAnalysis)
    /\ \A p \in Procs : (inv[p].pc # "idle") ~> Done(p)

\* An invocation returned after a 2xx reply it could not use.
C5_Witness ==
    \E p \in Procs : Done(p) /\ inv[p].via = "failure" /\ inv[p].status = 200

\* C6: one invocation issues at most maxRetries + 1 requests, and one whose
\* last response was a 429 returns the heuristic fallback.
C6_BackoffBound ==
    \A p \in Procs :
       /\ inv[p].sent <= maxRetries + 1
       /\ (Done(p) /\ inv[p].status = 429)
            => /\ inv[p].via = "failure"
               /\ inv[p].result = FailureFallback(inv[p].lead)

\* Every attempt was answered 429.
C6_Witness ==
    \E p \in Procs :
       /\ Done(p)
       /\ inv[p].status = 429
       /\ inv[p].sent = maxRetries + 1
       /\ inv[p].via = "failure"

\* C7: every returned Analysis has score and conversion probability in
\* [0,100] and a category among hot, warm, cold.
C7_AnalysisInRange ==
    \A p \in Procs :
       Done(p) =>
         /\ inv[p].result.score \in 0..100
         /\ inv[p].result.conversionProbability \in 0..100
         /\ inv[p].result.leadType \in {"hot", "warm", "cold"}

\* C8: the heuristic fallback is hot iff rating >= 4, reviewCount >= 50 and no
\* website (missing numbers read as 0), else warm iff a website exists, else
\* cold; score 85 if hot else 60, conversion probability 40 if hot else 15.
C8_HeuristicTable ==
    hOut.via # "none" =>
      LET r == IF hLead.rating = Undefined THEN 0 ELSE hLead.rating
          n == IF hLead.reviewCount = Undefined THEN 0 ELSE hLead.reviewCount
          web == hLead.website # UndefinedStr /\ hLead.website # ""
          hot == r >= 4 /\ n >= 50 /\ ~web
      IN /\ hOut.value.leadType = "hot" <=> hot
         /\ hOut.value.leadType = "warm" <=> (~hot /\ web)
         /\ hOut.value.leadType = "cold" <=> (~hot /\ ~web)
         /\ hOut.value.score = IF hot THEN 85 ELSE 60
         /\ hOut.value.conversionProbability = IF hot THEN 40 ELSE 15

\* The quota fallback judged a lead at both thresholds hot.
C8_Witness ==
    /\ hOut.via = "quota"
    /\ hLead.rating = 4 /\ hLead.reviewCount = 50 /\ hLead.website = ""
    /\ hOut.value.leadType = "hot"

\* (rating ?? 0, reviewCount ?? 0, Boolean(website))
HeuristicKey(leadData) ==
    <<OrZero(leadData.rating), OrZero(leadData.reviewCount), HasWebsite(leadData)>>

FellBack(p) == Done(p) /\ inv[p].via \in {"quota", "failure"}

\* C9: two fallback results for leads with the same (rating, reviewCount,
\* hasWebsite) are equal in every field, whichever branch produced them and
\* whatever the quota counter and the earlier calls were.
C9_FallbackDeterminism ==
    \A p, q \in Procs :
       (FellBack(p) /\ FellBack(q)
          /\ HeuristicKey(inv[p].lead) = HeuristicKey(inv[q].lead))
       => inv[p].result = inv[q].result

\* The two branches each produced a fallback, for two leads that differ as
\* records and agree on (rating, reviewCount, hasWebsite).
C9_Witness ==
    \E p, q \in Procs :
       /\ Done(p) /\ inv[p].via = "quota"
       /\ Done(q) /\ inv[q].via = "failure"
       /\ inv[p].lead = LeadData(4, 50, UndefinedStr)
       /\ inv[q].lead = LeadData(4, 50, "")

\* C10: with no credential configured every returned Analysis has score 0,
\* conversion probability 0 and category cold, no request is issued and the
\* quota counter stays as it was.
C10_NoKeyNoEffect ==
    SAMBA_API_KEY = "" =>
      /\ dailyRequestCount = 0
      /\ dailyWindowDate = 0
      /\ requestsToday = 0
      /\ \A p \in Procs :
           /\ inv[p].sent = 0
           /\ inv[p].pc \in {"idle", "done"}
           /\ Done(p) => /\ inv[p].result.score = 0
                         /\ inv[p].result.conversionProbability = 0
                         /\ inv[p].result.leadType = "cold"

\* An invocation returned without a credential, on a later day than the
\* stored one.
C10_Witness ==
    /\ SAMBA_API_KEY = ""
    /\ today > dailyWindowDate
    /\ \E p \in Procs : Done(p) /\ inv[p].via = "nokey"


\* ======================================================= the duplicate filter
\* index.ts (part_001) 559-573, and the same filter at 328-339.
\* A string is a sequence of one-character strings.
MaxBatch == 3

\* phone is optional in CombinedLead (part_001 474): the absent phone.
UndefinedSeq == <<UndefinedStr>>

ScrapedLead(businessName, phone, rating, website, source) ==
    [businessName |-> businessName, phone |-> phone, rating |-> rating,
     website |-> website, source |-> source]

IsDigit(c) == c \in {"0", "1", "2", "3", "4", "5", "6", "7", "8", "9"}

\* s.replace(/\D/g, '')
Digits(s) == SelectSeq(s, IsDigit)

LowerOf(c) ==
    CASE c = "A" -> "a"
      [] c = "B" -> "b"
      [] c = "C" -> "c"
      [] c = "D" -> "d"
      [] OTHER -> c

\* s.toLowerCase()
toLowerCase(s) == [i \in 1..Len(s) |-> LowerOf(s[i])]

\* lead.phone?.replace(/\D/g, '') || ''
phoneKeyOf(lead) ==
    IF lead.phone = UndefinedSeq THEN <<>> ELSE Digits(lead.phone)

\* lead.businessName.toLowerCase()
nameKeyOf(lead) == toLowerCase(lead.businessName)

\* Listings the filter is tried on: two spellings of one name and a second
\* name, and a phone that is absent, empty, written two ways, or different.
DedupNames == {<<"A", "b">>, <<"a", "b">>, <<"C", "d">>}

DedupPhones ==
    {UndefinedSeq, <<>>, <<"1", "-", "2">>, <<"1", "2">>, <<"3", "4">>}

DedupCands ==
    {ScrapedLead(n, p, 4, UndefinedStr, "google_maps") :
        n \in DedupNames, p \in DedupPhones}

Batches == UNION {[1..n -> DedupCands] : n \in 0..MaxBatch}

\* A filter that never looks at the phone key.
filterStepNameOnly(lead, seen) ==
    LET nameKey == nameKeyOf(lead)
    IN  IF nameKey \in seen.names
        THEN [keep |-> FALSE, phones |-> seen.phones, names |-> seen.names]
        ELSE [keep |-> TRUE, phones |-> seen.phones,
              names |-> seen.names \cup {nameKey}]

\* A filter that never looks at the name key.
filterStepPhoneOnly(lead, seen) ==
    LET phoneKey == phoneKeyOf(lead)
    IN  IF phoneKey # <<>> /\ phoneKey \in seen.phones
        THEN [keep |-> FALSE, phones |-> seen.phones, names |-> seen.names]
        ELSE [keep |-> TRUE,
              phones |-> IF phoneKey # <<>> THEN seen.phones \cup {phoneKey}
                         ELSE seen.phones,
              names |-> seen.names]

\* A filter that forgets a key once it has dropped a candidate for it.
filterStepForgetful(lead, seen) ==
    LET phoneKey == phoneKeyOf(lead)
        nameKey == nameKeyOf(lead)
    IN  IF phoneKey # <<>> /\ phoneKey \in seen.phones
        THEN [keep |-> FALSE, phones |-> seen.phones \ {phoneKey},
              names |-> seen.names]
        ELSE IF nameKey \in seen.names
        THEN [keep |-> FALSE, phones |-> seen.phones,
              names |-> seen.names \ {nameKey}]
        ELSE [keep |-> TRUE,
              phones |-> IF phoneKey # <<>> THEN seen.phones \cup {phoneKey}
                         ELSE seen.phones,
              names |-> seen.names \cup {nameKey}]

\* A filter that records the keys of a candidate before it tests them, so
\* that the keys of a dropped candidate are remembered too.
filterStepRecordsDropped(lead, seen) ==
    LET phoneKey == phoneKeyOf(lead)
        nameKey == nameKeyOf(lead)
        phones == IF phoneKey # <<>> THEN seen.phones \cup {phoneKey}
                  ELSE seen.phones
        names == seen.names \cup {nameKey}
    IN  IF phoneKey # <<>> /\ phoneKey \in seen.phones
        THEN [keep |-> FALSE, phones |-> phones, names |-> names]
        ELSE IF nameKey \in seen.names
        THEN [keep |-> FALSE, phones |-> phones, names |-> names]
        ELSE [keep |-> TRUE, phones |-> phones, names |-> names]

\* The callback of allLeads.filter, part_001 564-572: whether lead is
\* kept, and seenPhones and seenNames after it.
filterStep(lead, seen) ==
    LET phoneKey == phoneKeyOf(lead)
        nameKey == nameKeyOf(lead)
    IN  IF phoneKey # <<>> /\ phoneKey \in seen.phones
        THEN [keep |-> FALSE, phones |-> seen.phones, names |-> seen.names]
        ELSE IF nameKey \in seen.names
        THEN [keep |-> FALSE, phones |-> seen.phones, names |-> seen.names]
        ELSE [keep |-> TRUE,
              phones |-> IF phoneKey # <<>> THEN seen.phones \cup {phoneKey}
                         ELSE seen.phones,
              names |-> seen.names \cup {nameKey}]

RECURSIVE FilterFrom(_, _, _)
FilterFrom(allLeads, i, seen) ==
    IF i > Len(allLeads) THEN <<>>
    ELSE LET r == filterStep(allLeads[i], seen)
             rest == FilterFrom(allLeads, i + 1,
                                [phones |-> r.phones, names |-> r.names])
         IN  IF r.keep THEN <<allLeads[i]>> \o rest ELSE rest

\* uniqueLeads = allLeads.filter(...), with both sets empty at the start.
uniqueLeadsFilter(allLeads) ==
    FilterFrom(allLeads, 1, [phones |-> {}, names |-> {}])

DInit ==
    /\ AnalyzerIdle
    /\ ExtraIdle
    /\ NormIdle
    /\ AcqIdle
    /\ dBatch \in Batches
    /\ dOut = [via |-> "none", once |-> <<>>, twice |-> <<>>]

\* The filter runs on the merged batch.
DFilter ==
    /\ dOut.via = "none"
    /\ dOut' = [dOut EXCEPT !.via = "once",
                            !.once = uniqueLeadsFilter(dBatch)]
    /\ UNCHANGED <<SAMBA_API_KEY, today, quotaVars, inv, requestsToday,
                   hLead, hOut, dBatch, normVars, acqVars>>
    /\ UNCHANGED extraVars

\* The filter runs on its own output.
DAgain ==
    /\ dOut.via = "once"
    /\ dOut' = [dOut EXCEPT !.via = "twice",
                            !.twice = uniqueLeadsFilter(dOut.once)]
    /\ UNCHANGED <<SAMBA_API_KEY, today, quotaVars, inv, requestsToday,
                   hLead, hOut, dBatch, normVars, acqVars>>
    /\ UNCHANGED extraVars

DNext ==
    \/ DFilter
    \/ DAgain

DedupSpec == DInit /\ [][DNext]_vars

\* Two survivors of the filter, the earlier first.
SurvivorPairs ==
    {<<i, j>> \in (1..Len(dOut.once)) \X (1..Len(dOut.once)) : i < j}

\* C13: after the filter has run on a merged batch, in whatever order the
\* batch lists its candidates, no two survivors have the same non-empty
\* normalized phone (the phone with every non-digit removed).
C13_SurvivorsDistinctPhones ==
    dOut.via # "none" =>
        \A pr \in SurvivorPairs :
            LET a == dOut.once[pr[1]]
                b == dOut.once[pr[2]]
            IN  (a.phone # UndefinedSeq /\ Digits(a.phone) # <<>>
                    /\ b.phone # UndefinedSeq)
                => Digits(a.phone) # Digits(b.phone)

\* Two candidates with different names whose phones differ as written but
\* not in their digits went in, and one came out.
C13_Witness ==
    /\ dOut.via = "once"
    /\ Len(dBatch) = 2
    /\ dBatch[1].phone = <<"1", "-", "2">>
    /\ dBatch[2].phone = <<"1", "2">>
    /\ dBatch[1].businessName = <<"A", "b">>
    /\ dBatch[2].businessName = <<"C", "d">>
    /\ dOut.once = <<dBatch[1]>>

\* C14: after the filter has run, no two survivors have the same
\* case-folded business name.
C14_SurvivorsDistinctNames ==
    dOut.via # "none" =>
        \A pr \in SurvivorPairs :
            toLowerCase(dOut.once[pr[1]].businessName)
                # toLowerCase(dOut.once[pr[2]].businessName)

\* Two candidates with different phones whose names differ only in case
\* went in, and one came out.
C14_Witness ==
    /\ dOut.via = "once"
    /\ Len(dBatch) = 2
    /\ dBatch[1].businessName = <<"A", "b">>
    /\ dBatch[2].businessName = <<"a", "b">>
    /\ dBatch[1].phone = <<"1", "2">>
    /\ dBatch[2].phone = <<"3", "4">>
    /\ dOut.once = <<dBatch[1]>>

\* C15: the filter applied to its own output returns that output.
C15_DedupIdempotent ==
    dOut.via = "twice" => dOut.twice = dOut.once

\* The first pass dropped a candidate and kept two, and the second pass
\* has run.
C15_Witness ==
    /\ dOut.via = "twice"
    /\ Len(dBatch) = 3
    /\ Len(dOut.once) = 2
    /\ dOut.twice = dOut.once


\* ================================================== the reply text, in tokens
\* geminiService.ts 41-115 on texts written as sequences of lexical tokens:
\* "fence" is a code fence of three backticks, "lf" a line feed, "json" a
\* language tag, "ldquo" and "rdquo" the curly double quotes U+201C and
\* U+201D, "a" "b" "x" "leadType" words, "1" a number.
MaxMembers == 2

\* What \s matches.
Whitespace == {" ", "lf"}

WordTokens == {"a", "b", "x", "json", "leadType"}

NumberTokens == {"1"}

\* The members a JSON object is written from: key, and a string or a number.
Member(k, v) == [k |-> k, v |-> v]

StrValue(w) == [t |-> "string", s |-> w]

NumValue(n) == [t |-> "number", s |-> n]

MemberSeqs ==
    {m \in UNION {[1..n -> {Member(k, v) : k \in {"a", "leadType"},
                                          v \in {StrValue("x"), NumValue("1")}}]
                  : n \in 1..MaxMembers} :
        \A i, j \in DOMAIN m : i # j => m[i].k # m[j].k}

\* The object JSON.parse builds from members: the last value of a key wins.
RECURSIVE ToObject(_)
ToObject(members) ==
    IF members = <<>> THEN <<>>
    ELSE LET n == Len(members)
             before == ToObject(SubSeq(members, 1, n - 1))
         IN  [k \in DOMAIN before \cup {members[n].k} |->
                 IF k = members[n].k THEN members[n].v ELSE before[k]]

\* A string literal between the given delimiters.
Quoted(open, w, close) == <<open, w, close>>

RenderValue(v, open, close) ==
    IF v.t = "string" THEN Quoted(open, v.s, close) ELSE <<v.s>>

RECURSIVE RenderMembers(_, _, _)
RenderMembers(members, open, close) ==
    IF members = <<>> THEN <<>>
    ELSE Quoted(open, Head(members).k, close) \o <<":">>
         \o RenderValue(Head(members).v, open, close)
         \o (IF Len(members) > 1 THEN <<",">> ELSE <<>>)
         \o RenderMembers(Tail(members), open, close)

\* The text a model writes for an object: optionally inside a code fence,
\* with curly string delimiters, with one comma after the last member.
Render(members, fence, curly, comma) ==
    LET open == IF curly THEN "ldquo" ELSE "\""
        close == IF curly THEN "rdquo" ELSE "\""
        object == <<"{">> \o RenderMembers(members, open, close)
                  \o (IF comma THEN <<",">> ELSE <<>>) \o <<"}">>
    IN  IF fence THEN <<"fence", "json", "lf">> \o object \o <<"lf", "fence">>
        ELSE object

RECURSIVE DropWhile(_, _)
DropWhile(t, S) ==
    IF t # <<>> /\ Head(t) \in S THEN DropWhile(Tail(t), S) ELSE t

RECURSIVE DropRightWhile(_, _)
DropRightWhile(t, S) ==
    IF t # <<>> /\ t[Len(t)] \in S
    THEN DropRightWhile(SubSeq(t, 1, Len(t) - 1), S) ELSE t

\* text.replace(/^[\x00-\x1F\x7F]+/, ''): line feeds at the start go.
StripLeadingControl(t) == DropWhile(t, {"lf"})

\* text.replace(/```(?:json|JSON|js|javascript)?\s*\n?/gi, ''): every fence
\* goes, with a language tag and the white space that follow it.
RECURSIVE StripFences(_)
StripFences(t) ==
    IF t = <<>> THEN <<>>
    ELSE IF Head(t) = "fence"
    THEN LET afterTag == IF Tail(t) # <<>> /\ Head(Tail(t)) = "json"
                         THEN Tail(Tail(t)) ELSE Tail(t)
         IN  StripFences(DropWhile(afterTag, Whitespace))
    ELSE <<Head(t)>> \o StripFences(Tail(t))

\* text.replace(/\n?```\s*$/g, '')
StripFenceAtEnd(t) ==
    LET u == DropRightWhile(t, Whitespace)
    IN  IF u # <<>> /\ u[Len(u)] = "fence"
        THEN LET w == SubSeq(u, 1, Len(u) - 1)
             IN  IF w # <<>> /\ w[Len(w)] = "lf"
                 THEN SubSeq(w, 1, Len(w) - 1) ELSE w
        ELSE t

\* text.replace(/^```[a-zA-Z]*\s*/g, '')
StripFenceAtStart(t) ==
    IF t # <<>> /\ Head(t) = "fence"
    THEN DropWhile(DropWhile(Tail(t), WordTokens), Whitespace)
    ELSE t

\* text.replace(/\s*```$/g, '')
StripLastFence(t) ==
    IF t # <<>> /\ t[Len(t)] = "fence"
    THEN DropRightWhile(SubSeq(t, 1, Len(t) - 1), Whitespace)
    ELSE t

\* text.trim()
Trim(t) == DropRightWhile(DropWhile(t, Whitespace), Whitespace)

\* text.indexOf(c), text.lastIndexOf(c); 0 when c does not occur.
IndexOf(t, c) ==
    IF \E i \in DOMAIN t : t[i] = c
    THEN CHOOSE i \in DOMAIN t : t[i] = c /\ \A j \in 1..(i - 1) : t[j] # c
    ELSE 0

LastIndexOf(t, c) ==
    IF \E i \in DOMAIN t : t[i] = c
    THEN CHOOSE i \in DOMAIN t :
            t[i] = c /\ \A j \in (i + 1)..Len(t) : t[j] # c
    ELSE 0

\* text.replace(/[from]/g, to)
ReplaceAll(t, from, to) ==
    [i \in DOMAIN t |-> IF t[i] \in from THEN to ELSE t[i]]

\* text.replace(/,\s*([}\]])/g, "$1")
RECURSIVE RemoveTrailingCommas(_)
RemoveTrailingCommas(t) ==
    IF t = <<>> THEN <<>>
    ELSE LET after == DropWhile(Tail(t), Whitespace)
         IN  IF Head(t) = "," /\ after # <<>> /\ Head(after) \in {"}", "]"}
             THEN RemoveTrailingCommas(after)
             ELSE <<Head(t)>> \o RemoveTrailingCommas(Tail(t))


\* normalizeJsonLike, geminiService.ts 41-76. Line 68 is written
\* replace(/[""]/g, '"') with two straight quotes in the character class,
\* and line 70 likewise with straight single quotes.
normalizeJsonLikeT(text) ==
    LET c1 == StripLeadingControl(text)
        c2 == StripFences(c1)
        c3 == StripFenceAtEnd(c2)
        c4 == StripFenceAtStart(c3)
        c5 == StripLastFence(c4)
        c6 == Trim(c5)
        start == IndexOf(c6, "{")
        end == LastIndexOf(c6, "}")
    IN  IF start = 0 \/ end = 0 \/ end <= start
        THEN Throw("No complete JSON block found in LLM response")
        ELSE LET c7 == SubSeq(c6, start, end)
                 c8 == ReplaceAll(c7, {"\""}, "\"")
                 c9 == ReplaceAll(c8, {"'"}, "'")
             IN  Ok(RemoveTrailingCommas(c9))

\* text.replace(/([,{]\s*)([A-Za-z0-9_]+)\s*:/g, '$1"$2":')
RECURSIVE QuoteBareKeys(_)
QuoteBareKeys(t) ==
    IF t = <<>> THEN <<>>
    ELSE LET gap == Len(Tail(t)) - Len(DropWhile(Tail(t), Whitespace))
             after == DropWhile(Tail(t), Whitespace)
             colon == IF after = <<>> THEN <<>>
                      ELSE DropWhile(Tail(after), Whitespace)
         IN  IF /\ Head(t) \in {",", "{"}
                /\ after # <<>>
                /\ Head(after) \in WordTokens \cup NumberTokens
                /\ colon # <<>>
                /\ Head(colon) = ":"
             THEN SubSeq(t, 1, 1 + gap) \o <<"\"", Head(after), "\"", ":">>
                  \o QuoteBareKeys(Tail(colon))
             ELSE <<Head(t)>> \o QuoteBareKeys(Tail(t))

\* repairCommonJsonIssues, geminiService.ts 78-91. The texts here hold no
\* "/", so the two comment patterns of line 82 match nothing.
repairCommonJsonIssuesT(text) ==
    QuoteBareKeys(RemoveTrailingCommas(text))

\* A JSON string literal at the head of t: the word in it, or "" if none.
StringAt(t) ==
    IF Len(t) >= 3 /\ t[1] = "\"" /\ t[2] \in WordTokens /\ t[3] = "\""
    THEN t[2] ELSE ""

\* The members of a JSON object text after its "{", white space removed.
RECURSIVE ParseMembers(_, _)
ParseMembers(t, acc) ==
    LET k == StringAt(t)
        rest == SubSeq(t, 4, Len(t))
    IN  IF k = "" \/ Len(rest) < 2 \/ rest[1] # ":"
        THEN Throw("Unexpected token")
        ELSE LET vt == Tail(rest)
                 isStr == StringAt(vt) # ""
                 isNum == vt # <<>> /\ Head(vt) \in NumberTokens
                 v == IF isStr THEN StrValue(StringAt(vt))
                      ELSE NumValue(Head(vt))
                 more == IF isStr THEN SubSeq(vt, 4, Len(vt)) ELSE Tail(vt)
             IN  IF ~(isStr \/ isNum) \/ more = <<>>
                 THEN Throw("Unexpected token")
                 ELSE IF more = <<"}">>
                 THEN Ok(ToObject(Append(acc, Member(k, v))))
                 ELSE IF Head(more) = ","
                 THEN ParseMembers(Tail(more), Append(acc, Member(k, v)))
                 ELSE Throw("Unexpected token")

\* JSON.parse on an object text: white space between tokens is skipped, a
\* string is a word between two straight double quotes, and nothing may
\* follow the closing brace.
JSONparseT(text) ==
    LET t == SelectSeq(text, LAMBDA c : c \notin Whitespace)
    IN  IF t = <<>> \/ Head(t) # "{" THEN Throw("Unexpected token")
        ELSE IF t = <<"{", "}">> THEN Ok(<<>>)
        ELSE ParseMembers(Tail(t), <<>>)

\* An extractJSON that hands the text to JSON.parse when it has no span.
extractJSONTraceParsesAnyway(text) ==
    LET raw == normalizeJsonLikeT(text)
    IN  IF ~raw.ok THEN [result |-> JSONparseT(text), parses |-> 1]
        ELSE LET first == JSONparseT(raw.value)
             IN  IF first.ok THEN [result |-> first, parses |-> 1]
                 ELSE [result |->
                            JSONparseT(repairCommonJsonIssuesT(raw.value)),
                       parses |-> 2]

\* extractJSON, geminiService.ts 98-115: what it returns or throws, and
\* how many times it has called JSON.parse.
extractJSONTrace(text) ==
    LET raw == normalizeJsonLikeT(text)
    IN  IF ~raw.ok THEN [result |-> raw, parses |-> 0]
        ELSE LET first == JSONparseT(raw.value)
             IN  IF first.ok THEN [result |-> first, parses |-> 1]
                 ELSE [result |->
                            JSONparseT(repairCommonJsonIssuesT(raw.value)),
                       parses |-> 2]

extractJSONT(text) == extractJSONTrace(text).result

\* How the reply text departs from the rendered object: not at all; prose
\* with no brace; an object that is never closed; members written without
\* their colons; keys and strings written without quotes.
Damages == {"none", "prose", "unclosed", "nocolon", "bare"}

Damage(text, damage) ==
    LET without(S) == SelectSeq(text, LAMBDA c : c \notin S)
    IN  CASE damage = "prose" -> without({"{", "}"})
          [] damage = "unclosed" -> without({"}"})
          [] damage = "nocolon" -> without({":"})
          [] damage = "bare" -> without({"\"", "ldquo", "rdquo"})
          [] OTHER -> text

\* analyzeLead between the ok response and its return, geminiService.ts
\* 267-329, on a tokenized reply text: extractJSON throws, or the log line
\* at 292 calls toUpperCase on a leadType that is missing or a number, and
\* the catch returns the fallback; otherwise the parsed object is returned.
HandleReplyT(r, text) ==
    LET e == extractJSONT(text)
    IN  IF ~e.ok THEN OnError(r)
        ELSE IF "leadType" \notin DOMAIN e.value THEN OnError(r)
        ELSE IF e.value["leadType"].t # "string" THEN OnError(r)
        ELSE [r EXCEPT !.pc = "done", !.via = "ai",
                       !.result = [NoAnalysis EXCEPT
                                     !.leadType = e.value["leadType"].s]]

\* An invocation of analyzeLead whose first request got an ok response.
AwaitingBody(leadData) ==
    [Idle EXCEPT !.lead = leadData, !.pc = "json", !.status = 200,
                 !.sent = 1]

NInit ==
    /\ AnalyzerIdle
    /\ ExtraIdle
    /\ DedupIdle
    /\ AcqIdle
    /\ \E m \in MemberSeqs, fence, curly, comma \in BOOLEAN,
          damage \in Damages :
        /\ nIn = [via |-> "written", members |-> m, fence |-> fence,
                  curly |-> curly, comma |-> comma, damage |-> damage,
                  call |-> AwaitingBody(LeadData(4, 50, UndefinedStr))]
        /\ nText = Damage(Render(m, fence, curly, comma), damage)
    /\ nOut = [via |-> "none"]

\* The body of the reply arrives: extractJSON(text) runs on it and
\* analyzeLead returns.
NExtract ==
    /\ nOut.via = "none"
    /\ nOut' = [via |-> "done", result |-> extractJSONT(nText),
                parses |-> extractJSONTrace(nText).parses,
                call |-> HandleReplyT(nIn.call, nText)]
    /\ UNCHANGED <<SAMBA_API_KEY, today, quotaVars, inv, requestsToday,
                   hLead, hOut, dedupVars, nIn, nText, acqVars>>
    /\ UNCHANGED extraVars

NNext == NExtract

NormSpec == NInit /\ [][NNext]_vars

\* C18: a valid JSON object written inside a code fence, with curly double
\* quotes as its string delimiters and one trailing comma, comes out of
\* extractJSON (normalize, parse, at most one repair and re-parse) as the
\* object the plain text of the same members parses to.
C18_NormalizerRoundTrip ==
    (nOut.via = "done" /\ nIn.damage = "none"
            /\ nIn.fence /\ nIn.curly /\ nIn.comma)
        => (nOut.result.ok /\ nOut.result.value = ToObject(nIn.members))


\* ===================================================== the scraper endpoints
\* index.ts: POST /api/scraper/all-sources (part_001 450-657) and
\* POST /api/scraper/google-maps with the analysis (part_000 196-293).
MaxLimit == 2

Routes == {"all-sources", "google-maps"}

\* The adapters, named by the source tag the merge gives their leads.
Sources == {"google_maps", "justdial", "indiamart", "yelp"}

\* Lead.ts 8-16.
LEAD_SOURCES ==
    {"google_maps", "csv_import", "excel_import", "manual", "justdial",
     "indiamart", "other"}

\* What the handler calls: part_001 463-468 (all-sources), 314-317
\* (india), 400 (yelp), part_000 206 (google-maps).
Selected(route) ==
    CASE route = "all-sources" -> Sources
      [] route = "india" -> {"justdial", "indiamart"}
      [] route = "yelp" -> {"yelp"}
      [] OTHER -> {"google_maps"}

\* Every adapter is handed the limit divided by the number of adapters,
\* rounded down.
AdapterLimitFloor(route, limit) ==
    CASE route = "all-sources" -> limit \div 4
      [] route = "india" -> limit \div 2
      [] OTHER -> limit

\* The limit the handler passes to each adapter: Math.ceil(limit / 4) in
\* all-sources, Math.ceil(limit / 2) in india, limit in google-maps and
\* in yelp.
AdapterLimit(route, limit) ==
    CASE route = "all-sources" -> (limit + 3) \div 4
      [] route = "india" -> (limit + 1) \div 2
      [] OTHER -> limit

\* Listings an adapter can return, before the merge tags them: one name in
\* two spellings with one phone written two ways, and a listing with no
\* phone and a low rating.
ScrapedCands ==
    { ScrapedLead(<<"A", "b">>, <<"1", "-", "2">>, 4, UndefinedStr, UndefinedStr),
      ScrapedLead(<<"a", "b">>, <<"1", "2">>, 4, "https://x", UndefinedStr),
      ScrapedLead(<<"C", "d">>, UndefinedSeq, 3, UndefinedStr, UndefinedStr) }

\* An adapter returns at most `limit` listings.
AdapterValues(limit) == UNION {[1..n -> ScrapedCands] : n \in 0..limit}

\* A promise returned by scrapeGoogleMaps, scrapeJustDial, scrapeIndiaMART
\* or scrapeYelp.
Promise(status, value) == [status |-> status, value |-> value]

NotCalled == Promise("none", <<>>)

\* part_001 487-556: what allLeads.push receives for a lead of source s.
Tagged(lead, s) ==
    CASE s = "google_maps" -> [lead EXCEPT !.source = s]
      [] s = "indiamart" ->
            [lead EXCEPT !.source = s, !.rating = Undefined,
                         !.website = UndefinedStr]
      [] OTHER -> [lead EXCEPT !.source = s, !.website = UndefinedStr]

FromAdapter(adapters, s) ==
    IF adapters[s].status = "fulfilled"
    THEN [i \in DOMAIN adapters[s].value |-> Tagged(adapters[s].value[i], s)]
    ELSE <<>>

\* part_001 485-556: the fulfilled adapters' leads, in the order the
\* handler reads them.
Merge(adapters) ==
    FromAdapter(adapters, "google_maps") \o FromAdapter(adapters, "justdial")
    \o FromAdapter(adapters, "indiamart") \o FromAdapter(adapters, "yelp")

\* The await returns as soon as one adapter rejects.
ReadyToMergeFailFast(route, adapters) ==
    \/ \E s \in Selected(route) : adapters[s].status = "rejected"
    \/ \A s \in Selected(route) : adapters[s].status = "fulfilled"

\* Promise.allSettled([...]) of part_001 463, and the awaited promise of
\* part_000 206: the handler resumes when every promise has settled.
ReadyToMerge(route, adapters) ==
    \A s \in Selected(route) : adapters[s].status \in {"fulfilled", "rejected"}

\* The handler uses the store whatever the connection state.
StoreReadyAlways(state) == TRUE

\* mongoose.connection.readyState === 1
StoreReady(state) == state = 1

\* A truthy string.
Truthy(s) == s # UndefinedSeq /\ s # <<>>

\* A document of the Lead collection; idx is the position in the batch of
\* the candidate it was saved for, 0 for a document that was there before.
Doc(businessName, phone, source, isHotLead, idx) ==
    [businessName |-> businessName, phone |-> phone, source |-> source,
     isHotLead |-> isHotLead, aiScore |-> Undefined, idx |-> idx]

\* The lookup matches on the business name alone.
FindOneNameOnly(docs, scraped) ==
    \E k \in DOMAIN docs : docs[k].businessName = scraped.businessName

\* The lookup matches on the phone alone.
FindOnePhoneOnly(docs, scraped) ==
    \E k \in DOMAIN docs :
        Truthy(scraped.phone) /\ docs[k].phone = scraped.phone

\* Lead.findOne({$or: [phone if truthy, businessName]}) finds a document:
\* part_000 217-222, part_001 586-591.
FindOne(docs, scraped) ==
    \E k \in DOMAIN docs :
        \/ Truthy(scraped.phone) /\ docs[k].phone = scraped.phone
        \/ docs[k].businessName = scraped.businessName

\* rating && rating >= 4.0
HighRating(lead) == lead.rating # Undefined /\ lead.rating >= 4

\* The document lead.save() writes for candidate idx. isHotLead is what
\* the handler passes (part_001 599, part_000 250) or what the pre-save
\* hook of Lead.ts 137-142 sets.
NewLead(scraped, source, isHot, idx) ==
    Doc(scraped.businessName, scraped.phone, source,
        isHot \/ (HighRating(scraped) /\ Truthy(scraped.phone)), idx)

\* Schema validation on save: source is one of LEAD_SOURCES (Lead.ts 100),
\* fullName is required (Lead.ts 77).
Valid(doc) == doc.source \in LEAD_SOURCES /\ doc.businessName # <<>>

\* A parsed reply that has no whatToSell member.
PartialReply ==
    Analysis(50, "warm", "ai", UndefinedSeq, "hi", "ping", 50, <<"none">>,
             "site")

\* What analyzeLead(scraped) can resolve to once its entry took `branch`.
AnalyzeResults(branch, scraped) ==
    LET leadData == LeadData(scraped.rating, Undefined, scraped.website)
    IN  CASE branch = "nokey" -> {NoKeyAnalysis}
          [] branch = "quota" -> {QuotaFallback(leadData)}
          [] OTHER -> ReplyObjects \cup {PartialReply, FailureFallback(leadData)}


\* res.status(status).json({success, ...}) has been called; status 0 while
\* nothing has been sent.
Response(status, success, data) ==
    [status |-> status, success |-> success, data |-> data]

NoResponse == Response(0, FALSE, <<>>)

NoDoc == Doc(<<>>, UndefinedSeq, UndefinedStr, FALSE, 0)

\* What became of a candidate, and at which await.
Outcome(what, at) == [what |-> what, at |-> at]

\* A request as it arrives. The last fields are history: whether the
\* readyState test passed (gate), what became of each candidate the loop
\* has finished with, the calls to the store, the candidates findOne did
\* and did not find, and the candidates analyzeLead was called for, a quota
\* unit was granted for, save() was called for.
NewRun(route, query, limit) ==
    [route |-> route, query |-> query, limit |-> limit, pc |-> "received",
     adapters |-> [s \in Sources |-> NotCalled],
     allLeads |-> <<>>, uniqueLeads |-> <<>>, i |-> 0,
     branch |-> "none", lead |-> NoDoc,
     savedCount |-> 0, duplicateCount |-> 0, hotLeadCount |-> 0,
     response |-> NoResponse,
     gate |-> "none", outcomes |-> <<>>, storeOps |-> 0, hits |-> {},
     misses |-> {}, analyzed |-> {}, units |-> {}, saveTried |-> {}]

\* googleLeads.status === 'fulfilled' ? googleLeads.value.length : 0
CountOf(adapters, s) ==
    IF adapters[s].status = "fulfilled" THEN Len(adapters[s].value) ELSE 0

\* The data of res.json: part_001 637-652, part_000 280-289.
Summary(r) ==
    IF r.route = "all-sources"
    THEN [sources |-> [googleMaps |-> CountOf(r.adapters, "google_maps"),
                       justDial |-> CountOf(r.adapters, "justdial"),
                       indiaMART |-> CountOf(r.adapters, "indiamart")],
          totalScraped |-> Len(r.allLeads),
          uniqueLeads |-> Len(r.uniqueLeads),
          saved |-> r.savedCount, hotLeads |-> r.hotLeadCount,
          duplicates |-> r.duplicateCount, leads |-> r.uniqueLeads]
    ELSE [scraped |-> Len(r.uniqueLeads),
          saved |-> r.savedCount, duplicates |-> r.duplicateCount,
          hotLeads |-> r.hotLeadCount, leads |-> r.uniqueLeads]

SendSummary(r) ==
    [r EXCEPT !.pc = "done", !.response = Response(200, TRUE, Summary(r))]

\* res.status(status).json({ success: false, error })
SendError(r, status) ==
    [r EXCEPT !.pc = "done", !.response = Response(status, FALSE, <<>>)]

\* The for loop moves on: Lead.findOne is called for the next candidate,
\* or the loop is over and the summary is sent.
NextCandidate(r) ==
    IF r.i < Len(r.uniqueLeads)
    THEN [r EXCEPT !.pc = "findOne", !.i = r.i + 1, !.storeOps = @ + 1]
    ELSE SendSummary(r)

\* part_001 582-583, part_000 213-214 and 275-278: the loop
\* runs if the store is connected; google-maps counts hot leads otherwise.
Persist(r, state) ==
    IF StoreReady(state) THEN NextCandidate([r EXCEPT !.gate = "open"])
    ELSE IF r.route = "all-sources"
    THEN SendSummary([r EXCEPT !.gate = "closed"])
    ELSE SendSummary(
            [r EXCEPT !.gate = "closed", !.hotLeadCount =
                Len(SelectSeq(r.uniqueLeads,
                        LAMBDA l : HighRating(l) /\ Truthy(l.phone)))])

\* An error thrown while a candidate is processed ends the request.
OnLeadErrorAbort(r) ==
    SendError([r EXCEPT !.outcomes = Append(@, Outcome("error", r.pc))], 500)

\* The catch inside the loop: part_001 623-625, part_000 269-273.
OnLeadError(r) ==
    NextCandidate([r EXCEPT !.outcomes = Append(@, Outcome("error", r.pc))])

\* The handler resumes after its adapters: part_001 470-583,
\* part_000 206-213 with the outer catch of 290-293.
OnSettled(r, state) ==
    IF r.route = "all-sources"
    THEN LET all == Merge(r.adapters)
         IN  Persist([r EXCEPT !.allLeads = all,
                               !.uniqueLeads = uniqueLeadsFilter(all)],
                     state)
    ELSE IF r.adapters["google_maps"].status = "rejected"
    THEN SendError(r, 500)
    ELSE Persist([r EXCEPT !.allLeads = r.adapters["google_maps"].value,
                           !.uniqueLeads = r.adapters["google_maps"].value],
                 state)

\* The candidate is analysed and saved even when the lookup found it.
OnFindOneAnalyzeAnyway(r, existing, key, now, windowDate, count) ==
    LET e == analyzeLeadEntry(key, now, windowDate, count)
    IN  [run |-> [r EXCEPT !.pc = "analyze", !.branch = e.branch,
                           !.duplicateCount = IF existing THEN @ + 1 ELSE @,
                           !.analyzed = @ \cup {r.i},
                           !.units = IF e.granted THEN @ \cup {r.i} ELSE @],
         windowDate |-> e.windowDate, count |-> e.count]

\* Lead.findOne has returned: part_000 224-231, part_001 593-617. A hit
\* counts a duplicate and continues; otherwise google-maps calls
\* analyzeLead, which runs to its first await, and all-sources calls save.
OnFindOne(r, existing, key, now, windowDate, count) ==
    LET scraped == r.uniqueLeads[r.i]
    IN  IF existing
        THEN [run |-> NextCandidate(
                        [r EXCEPT !.duplicateCount = @ + 1,
                                  !.outcomes =
                                      Append(@, Outcome("duplicate",
                                                        "findOne"))]),
              windowDate |-> windowDate, count |-> count]
        ELSE IF r.route = "google-maps"
        THEN LET e == analyzeLeadEntry(key, now, windowDate, count)
             IN  [run |-> [r EXCEPT !.pc = "analyze", !.branch = e.branch,
                                    !.analyzed = @ \cup {r.i},
                                    !.units = IF e.granted THEN @ \cup {r.i}
                                              ELSE @],
                  windowDate |-> e.windowDate, count |-> e.count]
        ELSE [run |-> [r EXCEPT !.pc = "save",
                                !.lead = NewLead(scraped, scraped.source,
                                                 HighRating(scraped), r.i),
                                !.saveTried = @ \cup {r.i},
                                !.storeOps = @ + 1],
              windowDate |-> windowDate, count |-> count]

\* The handler passes isHotLead from the rating and the phone alone and
\* the hook never clears it.
OnAnalysisRatingOnly(r, aiAnalysis) ==
    LET scraped == r.uniqueLeads[r.i]
    IN  IF aiAnalysis.whatToSell = UndefinedSeq THEN OnLeadError(r)
        ELSE [r EXCEPT !.pc = "save",
                       !.lead = [NewLead(scraped, "google_maps",
                                    HighRating(scraped)
                                        /\ Truthy(scraped.phone),
                                    r.i)
                                    EXCEPT !.aiScore = aiAnalysis.score],
                       !.saveTried = @ \cup {r.i},
                       !.storeOps = @ + 1]

\* analyzeLead has returned aiAnalysis: part_000 231-266. Joining a
\* missing whatToSell throws inside the try. The document carries
\* aiScore: aiAnalysis.score (part_000 254).
OnAnalysis(r, aiAnalysis) ==
    LET scraped == r.uniqueLeads[r.i]
    IN  IF aiAnalysis.whatToSell = UndefinedSeq THEN OnLeadError(r)
        ELSE [r EXCEPT !.pc = "save",
                       !.lead = [NewLead(scraped, "google_maps",
                                    \/ aiAnalysis.score >= 80
                                    \/ HighRating(scraped)
                                        /\ Truthy(scraped.phone),
                                    r.i)
                                    EXCEPT !.aiScore = aiAnalysis.score],
                       !.saveTried = @ \cup {r.i},
                       !.storeOps = @ + 1]

\* lead.save() has settled: part_000 266-268, part_001 617-619.
OnSave(r, docs, throws) ==
    IF throws \/ ~Valid(r.lead)
    THEN [run |-> OnLeadError(r), store |-> docs]
    ELSE [run |-> NextCandidate(
                    [r EXCEPT !.savedCount = @ + 1,
                              !.hotLeadCount = IF r.lead.isHotLead
                                               THEN @ + 1 ELSE @,
                              !.outcomes =
                                  Append(@, Outcome("saved", "save"))]),
          store |-> Append(docs, r.lead)]

\* A lead saved before the request, by an import or an earlier run.
InitialStores ==
    {<<>>, <<Doc(<<"A", "b">>, <<"1", "-", "2">>, "manual", FALSE, 0)>>,
     <<Doc(<<"C", "d">>, <<"1", "2">>, "manual", FALSE, 0)>>}

AInit ==
    /\ ExtraIdle
    /\ DedupIdle
    /\ NormIdle
    /\ SAMBA_API_KEY \in {"", "194a4a17"}
    /\ today = 0
    /\ dailyWindowDate = 0
    /\ dailyRequestCount \in {0, SAMBA_DAILY_LIMIT}
    /\ inv = [p \in Procs |-> Idle]
    /\ grantedOn = [d \in Days |-> 0]
    /\ requestsToday = 0
    /\ hLead = LeadData(Undefined, Undefined, UndefinedStr)
    /\ hOut = [via |-> "none", value |-> NoAnalysis]
    /\ run \in {NewRun(route, query, limit) :
                    route \in Routes, query \in BOOLEAN, limit \in 1..MaxLimit}
    /\ store \in InitialStores
    /\ readyState \in {0, 1}

\* The handler runs to its first await: part_001 450-468, part_000 196-206.
Request ==
    /\ run.pc = "received"
    /\ run' = IF ~run.query THEN SendError(run, 400)
              ELSE [run EXCEPT !.pc = "scraping",
                               !.adapters =
                                   [s \in Sources |->
                                       IF s \in Selected(run.route)
                                       THEN Promise("pending", <<>>)
                                       ELSE NotCalled]]
    /\ UNCHANGED <<SAMBA_API_KEY, today, quotaVars, inv, requestsToday,
                   hLead, hOut, dedupVars, normVars, store, readyState>>
    /\ UNCHANGED extraVars

\* Adapter s returns its listings.
AdapterFulfils(s, value) ==
    /\ run.pc # "none"
    /\ run.adapters[s].status = "pending"
    /\ value \in AdapterValues(AdapterLimit(run.route, run.limit))
    /\ run' = [run EXCEPT !.adapters[s] = Promise("fulfilled", value)]
    /\ UNCHANGED <<SAMBA_API_KEY, today, quotaVars, inv, requestsToday,
                   hLead, hOut, dedupVars, normVars, store, readyState>>
    /\ UNCHANGED extraVars

\* Adapter s fails: the browser does not start, or scrape() throws.
AdapterRejects(s) ==
    /\ run.pc # "none"
    /\ run.adapters[s].status = "pending"
    /\ run' = [run EXCEPT !.adapters[s] = Promise("rejected", <<>>)]
    /\ UNCHANGED <<SAMBA_API_KEY, today, quotaVars, inv, requestsToday,
                   hLead, hOut, dedupVars, normVars, store, readyState>>
    /\ UNCHANGED extraVars

\* The await on the adapters returns.
Settled ==
    /\ run.pc = "scraping"
    /\ ReadyToMerge(run.route, run.adapters)
    /\ run' = OnSettled(run, readyState)
    /\ UNCHANGED <<SAMBA_API_KEY, today, quotaVars, inv, requestsToday,
                   hLead, hOut, dedupVars, normVars, store, readyState>>
    /\ UNCHANGED extraVars

\* History: whether the lookup for candidate i found a document.
Looked(r, i, existing) ==
    IF existing THEN [r EXCEPT !.hits = @ \cup {i}]
    ELSE [r EXCEPT !.misses = @ \cup {i}]

\* Lead.findOne settles: it throws, or reports whether a document matches.
FindOneSettles(throws) ==
    /\ run.pc = "findOne"
    /\ LET n == OnFindOne(run, FindOne(store, run.uniqueLeads[run.i]),
                          SAMBA_API_KEY, today, dailyWindowDate,
                          dailyRequestCount)
       IN  IF throws
           THEN /\ run' = OnLeadError(run)
                /\ UNCHANGED <<dailyWindowDate, dailyRequestCount>>
           ELSE /\ run' = Looked(n.run, run.i,
                                  FindOne(store, run.uniqueLeads[run.i]))
                /\ dailyWindowDate' = n.windowDate
                /\ dailyRequestCount' = n.count
    /\ UNCHANGED <<SAMBA_API_KEY, today, grantedOn, inv, requestsToday,
                   hLead, hOut, dedupVars, normVars, store, readyState>>
    /\ UNCHANGED extraVars

\* analyzeLead returns.
AnalyzeLeadSettles(aiAnalysis) ==
    /\ run.pc = "analyze"
    /\ aiAnalysis \in AnalyzeResults(run.branch, run.uniqueLeads[run.i])
    /\ run' = OnAnalysis(run, aiAnalysis)
    /\ UNCHANGED <<SAMBA_API_KEY, today, quotaVars, inv, requestsToday,
                   hLead, hOut, dedupVars, normVars, store, readyState>>
    /\ UNCHANGED extraVars

\* lead.save() settles.
SaveSettles(throws) ==
    /\ run.pc = "save"
    /\ LET n == OnSave(run, store, throws)
       IN  /\ run' = n.run
           /\ store' = n.store
    /\ UNCHANGED <<SAMBA_API_KEY, today, quotaVars, inv, requestsToday,
                   hLead, hOut, dedupVars, normVars, readyState>>
    /\ UNCHANGED extraVars

AllAnalyses ==
    UNION {AnalyzeResults(b, c) : b \in {"nokey", "quota", "call"},
                                  c \in ScrapedCands}

ANext ==
    \/ Request
    \/ \E s \in Sources, value \in AdapterValues(MaxLimit) :
            AdapterFulfils(s, value)
    \/ \E s \in Sources : AdapterRejects(s)
    \/ Settled
    \/ \E throws \in BOOLEAN : FindOneSettles(throws)
    \/ \E aiAnalysis \in AllAnalyses : AnalyzeLeadSettles(aiAnalysis)
    \/ \E throws \in BOOLEAN : SaveSettles(throws)

AcqSpec == AInit /\ [][ANext]_vars


\* ------------------------------------------------ claims on the endpoints
\* The handler has gone past the await on its adapters.
Merged(r) ==
    \/ r.pc \in {"findOne", "analyze", "save"}
    \/ r.pc = "done" /\ r.response.status # 400

\* The leads of the working list that carry tag s.
TaggedWith(allLeads, s) == SelectSeq(allLeads, LAMBDA l : l.source = s)

\* Listing c is in the working list under tag s.
Present(allLeads, c, s) ==
    \E j \in DOMAIN allLeads :
        /\ allLeads[j].businessName = c.businessName
        /\ allLeads[j].phone = c.phone
        /\ allLeads[j].source = s

MergedAfterAllSettled ==
    Merged(run) =>
        /\ \A s \in Selected(run.route) :
                run.adapters[s].status \in {"fulfilled", "rejected"}
        /\ run.route = "all-sources" =>
            \A s \in Sources :
                /\ run.adapters[s].status = "fulfilled" =>
                    \A k \in DOMAIN run.adapters[s].value :
                        Present(run.allLeads, run.adapters[s].value[k], s)
                /\ Len(TaggedWith(run.allLeads, s)) = CountOf(run.adapters, s)

\* A step in which adapter s settles leaves every other adapter as it was.
SiblingsUntouched ==
    \A s \in Sources :
        (run.pc # "none" /\ run'.adapters[s] # run.adapters[s]
            /\ run.adapters[s].status = "pending")
        => \A t \in Sources \ {s} : run'.adapters[t] = run.adapters[t]

\* C11: whichever adapters fail and in whatever order the adapters settle,
\* the handler goes on to merge only when every adapter it called has
\* settled; the working list then holds every listing of every fulfilled
\* adapter and none for a rejected one, and an adapter that settles (a
\* rejection included) changes no sibling.
C11_SettleAll == []MergedAfterAllSettled /\ [][SiblingsUntouched]_vars

\* all-sources has merged after one adapter rejected and the three others
\* returned a listing each.
C11_Witness ==
    /\ run.pc = "findOne"
    /\ run.route = "all-sources"
    /\ run.adapters["google_maps"].status = "rejected"
    /\ \A s \in Sources \ {"google_maps"} :
            /\ run.adapters[s].status = "fulfilled"
            /\ Len(run.adapters[s].value) = 1
    /\ Len(run.allLeads) = 3

\* The counts the summary gives for the adapters that failed.
FailedCounts(r) ==
    {CountOf(r.adapters, s) :
        s \in {t \in Selected(r.route) : r.adapters[t].status = "rejected"}}

\* C12: a request that names a query is answered with a success summary,
\* whichever of its adapters fail (all of them included) and also when it
\* has a single adapter, and the summary counts 0 for a failed adapter.
C12_AdapterFailureNotAnError ==
    (run.pc = "done" /\ run.query) =>
        /\ run.response.status = 200
        /\ run.response.success
        /\ FailedCounts(run) \subseteq {0}


\* The list the handler has after scraping and filtering.
ScrapedList(r) ==
    IF r.route = "all-sources" THEN uniqueLeadsFilter(Merge(r.adapters))
    ELSE r.adapters["google_maps"].value

\* C16: with the store not connected, no lookup and no save is ever issued
\* and the collection stays as it was, and a handler that comes to the
\* readyState test sends a success summary that carries the scraped and
\* filtered list and reports saved = 0 and duplicates = 0.
C16_StoreUnavailable ==
    readyState # 1 =>
        /\ run.storeOps = 0
        /\ store \in InitialStores
        /\ run.gate # "open"
        /\ run.gate = "closed" =>
            /\ run.pc = "done"
            /\ run.response.status = 200
            /\ run.response.success
            /\ run.response.data.leads = ScrapedList(run)
            /\ run.response.data.saved = 0
            /\ run.response.data.duplicates = 0

\* google-maps answered with two scraped listings while the store was down
\* and held a lead that matches one of them.
C16_Witness ==
    /\ readyState # 1
    /\ run.pc = "done"
    /\ run.route = "google-maps"
    /\ run.gate = "closed"
    /\ Len(run.response.data.leads) = 2
    /\ store # <<>>
    /\ FindOne(store, run.response.data.leads[1])

\* The candidates the loop has finished with, by what became of them.
Finished(r, what) == {k \in DOMAIN r.outcomes : r.outcomes[k].what = what}

\* C17: a candidate whose lookup, analysis or save throws is skipped and
\* nothing else is: it is not counted as saved and leaves no document, the
\* loop goes on to the candidate after it, and once the loop has started
\* the request ends with the success summary after every candidate of the
\* batch has been processed.
C17_ErrorSkipsOneCandidate ==
    run.gate = "open" =>
        /\ run.savedCount = Cardinality(Finished(run, "saved"))
        /\ \A k \in Finished(run, "error") :
                \A d \in DOMAIN store : store[d].idx # k
        /\ run.pc \in {"findOne", "analyze", "save"} =>
                /\ run.i = Len(run.outcomes) + 1
                /\ run.response.status = 0
        /\ run.pc = "done" =>
                /\ Len(run.outcomes) = Len(run.uniqueLeads)
                /\ run.response.status = 200
                /\ run.response.data.saved = run.savedCount

\* The lookup of the first candidate threw and the second was saved.
C17_Witness ==
    /\ run.pc = "done"
    /\ Len(run.outcomes) = 2
    /\ run.outcomes[1] = Outcome("error", "findOne")
    /\ run.outcomes[2] = Outcome("saved", "save")
    /\ run.response.data.saved = 1

HitsDropped ==
    run.pc \notin {"none", "received"} =>
        /\ run.hits \cap (run.analyzed \cup run.units \cup run.saveTried) = {}
        /\ run.duplicateCount = Cardinality(run.hits)
        /\ run.analyzed \subseteq run.misses
        /\ run.units \subseteq run.analyzed
        /\ \A d \in DOMAIN store : store[d].idx \notin run.hits

\* The quota counter moves only in the step in which a lookup reports
\* that it found nothing.
QuotaOnlyAfterMiss ==
    dailyRequestCount' # dailyRequestCount =>
        /\ run.pc = "findOne"
        /\ ~FindOne(store, run.uniqueLeads[run.i])
        /\ run'.pc = "analyze"

\* C19: a candidate whose lookup finds a lead is counted as a duplicate and
\* goes no further: analyzeLead is not called for it, no quota unit is taken
\* for it and no save is attempted; analyzeLead is called only for a
\* candidate whose lookup found nothing.
C19_HitDroppedBeforeAnalysis == []HitsDropped /\ [][QuotaOnlyAfterMiss]_vars

\* google-maps found its first candidate in the store and analysed its
\* second with a quota unit.
C19_Witness ==
    /\ run.route = "google-maps"
    /\ run.pc = "save"
    /\ run.hits = {1}
    /\ run.analyzed = {2}
    /\ run.units = {2}
    /\ run.duplicateCount = 1

\* The documents this request has saved.
SavedByRun == {d \in DOMAIN store : store[d].idx > 0}

\* C20: one candidate is in flight at a time and in batch order: when the
\* lookup of a candidate is pending every earlier candidate is finished
\* and every lead saved for one of them is in the collection the lookup
\* reads; no two leads saved by the request have the same phone or the
\* same business name.
C20_SequentialNoSiblingDuplicates ==
    run.gate = "open" =>
        /\ run.pc \in {"findOne", "analyze", "save"} =>
                /\ Len(run.outcomes) = run.i - 1
                /\ run.hits \cup run.misses \cup run.analyzed
                        \cup run.saveTried \subseteq 1..run.i
        /\ \A k \in Finished(run, "saved") :
                \E d \in SavedByRun : store[d].idx = k
        /\ \A d, e \in SavedByRun :
                d # e =>
                    /\ store[d].businessName # store[e].businessName
                    /\ Truthy(store[d].phone) =>
                            store[d].phone # store[e].phone

\* The store was empty, the batch listed the same business twice, and the
\* second lookup found the lead saved for the first.
C20_Witness ==
    /\ run.pc = "done"
    /\ Len(run.uniqueLeads) = 2
    /\ run.uniqueLeads[1] = run.uniqueLeads[2]
    /\ run.outcomes = <<Outcome("saved", "save"), Outcome("duplicate", "findOne")>>
    /\ Len(store) = 1
    /\ store[1].idx = 1


\* Pairs of documents of which the second was saved by this request while
\* the first was in the collection.
SavedOver == {pr \in (DOMAIN store) \X SavedByRun : pr[1] < pr[2]}

\* C21 as stated: a candidate whose digits-only phone (when not empty) or
\* whose lower-cased business name equals that of a lead already in the
\* collection is not saved.
C21_StoreCheckNormalized ==
    \A pr \in SavedOver :
        /\ phoneKeyOf(store[pr[2]]) # <<>> =>
                phoneKeyOf(store[pr[2]]) # phoneKeyOf(store[pr[1]])
        /\ nameKeyOf(store[pr[2]]) # nameKeyOf(store[pr[1]])

\* C21, amended: a candidate whose phone, when not empty, or whose business
\* name is the same string as that of a lead already in the collection is
\* counted as a duplicate and is not saved: every lookup that finds a lead
\* adds one to the duplicate counter and leaves no document.
C21_StoreCheckExact ==
    run.gate = "open" =>
        /\ \A pr \in SavedOver :
                /\ Truthy(store[pr[2]].phone) =>
                        store[pr[2]].phone # store[pr[1]].phone
                /\ store[pr[2]].businessName # store[pr[1]].businessName
        /\ run.duplicateCount = Cardinality(Finished(run, "duplicate"))
        /\ \A k \in Finished(run, "duplicate") :
                /\ k \in run.hits
                /\ \A d \in DOMAIN store : store[d].idx # k
        /\ run.pc = "done" =>
                run.response.data.duplicates = run.duplicateCount

\* A candidate spelled as a lead that was in the collection before the
\* request was counted as a duplicate, and a candidate that differs from
\* that lead only in case and phone punctuation was saved.
C21_Witness ==
    /\ run.pc = "done"
    /\ Len(store) = 2
    /\ store[1].idx = 0
    /\ store[2].idx > 0
    /\ phoneKeyOf(store[2]) = phoneKeyOf(store[1])
    /\ nameKeyOf(store[2]) = nameKeyOf(store[1])
    /\ Finished(run, "duplicate") # {}


\* C22: in every summary of an all-sources request the total-scraped count
\* is the sum of the per-source counts of that summary, a failed source
\* counting 0, and the unique count is at most the total-scraped count.
C22_SummaryCountsAddUp ==
    (run.pc = "done" /\ run.route = "all-sources" /\ run.response.success) =>
        /\ run.response.data.totalScraped =
                run.response.data.sources.googleMaps
                    + run.response.data.sources.justDial
                    + run.response.data.sources.indiaMART
        /\ run.response.data.uniqueLeads <= run.response.data.totalScraped


\* C28: every source tag the handler puts on a candidate is a member of
\* LEAD_SOURCES, the enumeration of the source field of a Lead, so that
\* no document the handler is about to save is rejected for its source.
C28_TagsInEnumeration ==
    /\ \A k \in DOMAIN run.allLeads : run.allLeads[k].source \in LEAD_SOURCES
    /\ run.pc = "saving" => run.lead.source \in LEAD_SOURCES


\* The documents this request saved with an analysis.
Analyzed == {d \in SavedByRun : store[d].aiScore # Undefined}

\* C27 as stated: a lead saved with an analysis has its hot flag set
\* exactly when the score of the analysis is at least 80.
C27_HotIffScore ==
    \A d \in Analyzed : store[d].isHotLead <=> store[d].aiScore >= 80

\* C27, amended: a lead saved with an analysis has its hot flag set exactly
\* when the score of the analysis is at least 80 or the candidate has a
\* rating of at least 4.0 and a non-empty phone.
C27_HotIffScoreOrRating ==
    \A d \in Analyzed :
        store[d].isHotLead <=>
            \/ store[d].aiScore >= 80
            \/ HighRating(run.uniqueLeads[store[d].idx])
                /\ Truthy(run.uniqueLeads[store[d].idx].phone)

\* A lead was saved hot on a score of at least 80 alone, and another on
\* its rating and phone with a score below 80.
C27_Witness ==
    /\ \E d \in Analyzed :
            /\ store[d].isHotLead
            /\ store[d].aiScore >= 80
            /\ ~HighRating(run.uniqueLeads[store[d].idx])
    /\ \E d \in Analyzed : store[d].isHotLead /\ store[d].aiScore < 80


\* The ways of reading `out` as a subsequence of `batch`: the strictly
\* increasing maps from the positions of out to those of batch under
\* which the elements agree.
Embeddings(out, batch) ==
    {f \in [1..Len(out) -> 1..Len(batch)] :
        /\ \A k \in 1..Len(out) : out[k] = batch[f[k]]
        /\ \A k \in 1..Len(out) : \A l \in 1..Len(out) :
                k < l => f[k] < f[l]}

\* Candidates a and b have the same non-empty digits-only phone or the
\* same lower-cased name.
SameKey(a, b) ==
    \/ phoneKeyOf(a) # <<>> /\ phoneKeyOf(a) = phoneKeyOf(b)
    \/ nameKeyOf(a) = nameKeyOf(b)

\* C26: the survivors of the filter are a subsequence of the batch, in the
\* order of the batch, that starts with the first candidate of the batch,
\* and every dropped candidate has the non-empty digits-only phone or the
\* lower-cased name of a survivor that stands earlier in the batch.
C26_SubsequenceOfBatch ==
    dOut.via # "none" =>
        \E f \in Embeddings(dOut.once, dBatch) :
            /\ dBatch # <<>> => (dOut.once # <<>> /\ f[1] = 1)
            /\ \A i \in 1..Len(dBatch) :
                    (\A k \in 1..Len(dOut.once) : f[k] # i) =>
                        \E k \in 1..Len(dOut.once) :
                            f[k] < i /\ SameKey(dBatch[i], dBatch[f[k]])

\* The second of three candidates was dropped for the name of the first,
\* and the third, which has the phone of the second, was kept.
C26_Witness ==
    /\ dOut.via = "once"
    /\ Len(dBatch) = 3
    /\ dOut.once = <<dBatch[1], dBatch[3]>>
    /\ nameKeyOf(dBatch[2]) = nameKeyOf(dBatch[1])
    /\ phoneKeyOf(dBatch[3]) # <<>>
    /\ phoneKeyOf(dBatch[3]) = phoneKeyOf(dBatch[2])


\* The endpoint has answered with a status that is neither ok nor 429.
NonRetryable(status) == status \notin {0, 200, 429}

\* After such an answer the invocation reads the error text and ends with
\* the failure fallback.
ErrorEndsInFallback ==
    \A p \in Procs :
        NonRetryable(inv[p].status) =>
            /\ inv[p].pc \in {"errbody", "done"}
            /\ inv[p].pc = "done" =>
                    /\ inv[p].via = "failure"
                    /\ inv[p].result = FailureFallback(inv[p].lead)

\* A step that sends a request sends one, and it is the first request of
\* the invocation or it follows a 429 that came while fewer than maxRetries
\* retries had been made.
SendsOnlyAfter429 ==
    \A p \in Procs :
        inv'[p].sent > inv[p].sent =>
            /\ inv'[p].sent = inv[p].sent + 1
            /\ \/ inv[p].sent = 0 /\ inv[p].attempt = 0
               \/ /\ inv[p].status = 429
                  /\ inv[p].attempt = inv[p].sent
                  /\ inv[p].attempt - 1 < maxRetries

\* C24: after a response whose status is neither ok nor 429, analyzeLead
\* sends no further request and returns the heuristic fallback; a further
\* request is sent only after a 429 received while fewer than maxRetries
\* retries had been made.
C24_RetryOnlyOn429 == []ErrorEndsInFallback /\ [][SendsOnlyAfter429]_vars

\* The first response was a 500 and the invocation ended with the fallback
\* after one request.
C24_Witness ==
    \E p \in Procs :
        /\ inv[p].status = 500
        /\ inv[p].pc = "done"
        /\ inv[p].sent = 1
        /\ inv[p].via = "failure"
        /\ inv[p].result = FailureFallback(inv[p].lead)


\* The reply text has a span from its first { to its last }.
HasSpan == normalizeJsonLikeT(nText).ok

\* analyzeLead has returned the failure fallback for the lead, having sent
\* no request after the one the reply answers.
ReturnedFallback ==
    /\ nOut.call.pc = "done"
    /\ nOut.call.via = "failure"
    /\ nOut.call.result = FailureFallback(nIn.call.lead)
    /\ nOut.call.sent = nIn.call.sent

\* C25: for an ok reply whose text has no { ... } span, or whose span fails
\* the strict parse and the parse after the one repair, analyzeLead returns
\* the heuristic fallback; JSON.parse is called at most twice per reply and
\* not at all when there is no span, and no further request is sent.
C25_UnparsableReplyFallsBack ==
    nOut.via = "done" =>
        /\ ~HasSpan => (nOut.parses = 0 /\ ReturnedFallback)
        /\ HasSpan => nOut.parses \in {1, 2}
        /\ (HasSpan /\ ~nOut.result.ok) =>
                (nOut.parses = 2 /\ ReturnedFallback)
        /\ nOut.call.pc = "done"
        /\ nOut.call.sent = nIn.call.sent

\* A reply whose members have lost their colons went through both parses
\* and analyzeLead returned the fallback.
C25_Witness ==
    /\ nOut.via = "done"
    /\ nIn.damage = "nocolon"
    /\ HasSpan
    /\ ~nOut.result.ok
    /\ nOut.parses = 2
    /\ ReturnedFallback



\* ============================================= the limit of each adapter
\* index.ts: how the four scraper endpoints split req.body.limit among the
\* adapters they call.
MaxTotal == 13

AllRoutes == {"all-sources", "india", "google-maps", "yelp"}

\* A request has arrived with a whole number as its limit.
LInit ==
    /\ AnalyzerIdle
    /\ DedupIdle
    /\ NormIdle
    /\ AcqIdle
    /\ ScraperIdle
    /\ RunsIdle
    /\ \E route \in AllRoutes, limit \in 0..MaxTotal :
            lim = [via |-> "received", route |-> route, limit |-> limit]

\* The handler calls its adapters, each with its limit.
LCall ==
    /\ lim.via = "received"
    /\ lim' = [via |-> "called", route |-> lim.route, limit |-> lim.limit,
               limits |-> [s \in Selected(lim.route) |->
                              AdapterLimit(lim.route, lim.limit)]]
    /\ UNCHANGED <<SAMBA_API_KEY, today, quotaVars, inv, requestsToday,
                   hLead, hOut, dedupVars, normVars, acqVars, scraperVars,
                   runs>>

LNext == LCall

LimitSpec == LInit /\ [][LNext]_vars

\* The sum of f over the set S.
RECURSIVE SumOver(_, _)
SumOver(f, S) ==
    IF S = {} THEN 0
    ELSE LET s == CHOOSE x \in S : TRUE
         IN  f[s] + SumOver(f, S \ {s})

\* C23: each adapter a handler calls is handed ceil(limit / n), n being
\* the number of adapters it calls, so that the limits handed out sum to
\* a value from limit to limit + n - 1.
C23_CeilingSplit ==
    lim.via = "called" =>
        LET n == Cardinality(Selected(lim.route))
            sum == SumOver(lim.limits, DOMAIN lim.limits)
        IN  /\ DOMAIN lim.limits = Selected(lim.route)
            /\ \A s \in DOMAIN lim.limits :
                    /\ n * lim.limits[s] >= lim.limit
                    /\ n * (lim.limits[s] - 1) < lim.limit
            /\ lim.limit <= sum
            /\ sum <= lim.limit + n - 1

\* A limit of 5 was split among four adapters, 2 each, 8 in all.
C23_Witness ==
    /\ lim.via = "called"
    /\ lim.route = "all-sources"
    /\ lim.limit = 5
    /\ \A s \in Sources : lim.limits[s] = 2
    /\ SumOver(lim.limits, Sources) = 8



\* ================================================ the scraper's browser
\* googleMapsScraper.ts 33-62 and 298-314: scrapeGoogleMaps called while
\* another call of it is still running. null is written 0; an object is
\* named by its position in scrapers, a browser and its page by the
\* position of the browser in browsers.
NumCalls == 2

Callers == 1..NumCalls

\* new GoogleMapsScraper(): googleMapsScraper.ts 34-35.
NewScraper == [browser |-> 0, page |-> 0]

\* A call of scrapeGoogleMaps: where it waits, the object it is running a
\* method of, what called init, the page or browser its pending operation
\* was issued on, the browser its close() closes, and how the try ended.
NoCall ==
    [pc |-> "idle", inst |-> 0, ret |-> "none", page |-> 0, closes |-> 0,
     outcome |-> "none"]

\* this.init() runs to its first await, puppeteer.launch:
\* googleMapsScraper.ts 37-39.
InitEntry(c, i, ret) == [c EXCEPT !.pc = "launch", !.inst = i, !.ret = ret]

\* this.page!.goto(url) is issued: googleMapsScraper.ts 80. On a null page
\* the TypeError is caught at 293 and thrown again.
GotoEntry(c, i, objs) ==
    IF objs[i].page = 0 THEN [c EXCEPT !.pc = "finally", !.outcome = "failed"]
    ELSE [c EXCEPT !.pc = "goto", !.inst = i, !.page = objs[i].page]

\* scraperInstance.scrape(config) runs to its first await:
\* googleMapsScraper.ts 64-80 and 309.
ScrapeEntry(c, i, objs) ==
    IF objs[i].page = 0 THEN InitEntry(c, i, "scrape")
    ELSE GotoEntry(c, i, objs)

\* The finally block, googleMapsScraper.ts 310-313, to its await: reading
\* close of a null scraperInstance throws, and the call rejects.
FinallyEntry(c, instance, objs) ==
    IF c.pc # "finally" THEN c
    ELSE IF instance = 0 THEN [c EXCEPT !.pc = "failed"]
    ELSE [c EXCEPT !.pc = "closing", !.inst = instance,
                   !.closes = objs[instance].browser]

\* An operation of init has rejected: in init called at 305 the call
\* rejects before the try, in init called by scrape the catch at 293
\* throws again inside it.
InitFails(c) ==
    IF c.ret = "wrapper" THEN [c EXCEPT !.pc = "failed"]
    ELSE [c EXCEPT !.pc = "finally", !.outcome = "failed"]

\* init has resolved: the wrapper goes on to scraperInstance.scrape(config)
\* at 309, scrape to this.page!.goto at 80.
InitDone(c, instance, objs) ==
    IF c.ret = "wrapper"
    THEN IF instance = 0
         THEN [c EXCEPT !.pc = "finally", !.outcome = "failed"]
         ELSE ScrapeEntry(c, instance, objs)
    ELSE GotoEntry(c, c.inst, objs)

SInit ==
    /\ AnalyzerIdle
    /\ DedupIdle
    /\ NormIdle
    /\ AcqIdle
    /\ LimIdle
    /\ RunsIdle
    /\ scraperInstance = 0
    /\ scrapers = <<>>
    /\ browsers = <<>>
    /\ calls = [c \in Callers |-> NoCall]

SUnchanged ==
    UNCHANGED <<SAMBA_API_KEY, today, quotaVars, inv, requestsToday, hLead,
                hOut, dedupVars, normVars, acqVars, limVars, runs>>

\* scrapeGoogleMaps(config) is called: googleMapsScraper.ts 302-309.
SCall(c) ==
    /\ calls[c].pc = "idle"
    /\ IF scraperInstance = 0
       THEN /\ scrapers' = Append(scrapers, NewScraper)
            /\ scraperInstance' = Len(scrapers) + 1
            /\ calls' = [calls EXCEPT
                            ![c] = InitEntry(@, Len(scrapers) + 1, "wrapper")]
       ELSE /\ calls' = [calls EXCEPT
                            ![c] = FinallyEntry(
                                     ScrapeEntry(@, scraperInstance, scrapers),
                                     scraperInstance, scrapers)]
            /\ UNCHANGED <<scraperInstance, scrapers>>
    /\ UNCHANGED browsers
    /\ SUnchanged

\* puppeteer.launch resolves and newPage is issued: 39-49.
SLaunched(c) ==
    /\ calls[c].pc = "launch"
    /\ browsers' = Append(browsers, TRUE)
    /\ scrapers' = [scrapers EXCEPT
                        ![calls[c].inst].browser = Len(browsers) + 1]
    /\ calls' = [calls EXCEPT ![c].pc = "newpage",
                              ![c].page = Len(browsers) + 1]
    /\ UNCHANGED scraperInstance
    /\ SUnchanged

\* browser.newPage() settles and setViewport is issued: 49-50.
SPage(c) ==
    /\ calls[c].pc = "newpage"
    /\ IF browsers[calls[c].page]
       THEN /\ scrapers' = [scrapers EXCEPT
                                ![calls[c].inst].page = calls[c].page]
            /\ calls' = [calls EXCEPT ![c].pc = "setup"]
       ELSE /\ calls' = [calls EXCEPT
                            ![c] = FinallyEntry(InitFails(@), scraperInstance,
                                                scrapers)]
            /\ UNCHANGED scrapers
    /\ UNCHANGED <<scraperInstance, browsers>>
    /\ SUnchanged

\* setViewport and setUserAgent settle, init returns: 50-54.
SSetup(c) ==
    /\ calls[c].pc = "setup"
    /\ LET ok == browsers[calls[c].page] /\ scrapers[calls[c].inst].page # 0
           after == IF ok THEN InitDone(calls[c], scraperInstance, scrapers)
                    ELSE InitFails(calls[c])
       IN  calls' = [calls EXCEPT
                        ![c] = FinallyEntry(after, scraperInstance, scrapers)]
    /\ UNCHANGED <<scraperInstance, scrapers, browsers>>
    /\ SUnchanged

\* page.goto settles and the next page operation is issued: 80-102.
SGoto(c) ==
    /\ calls[c].pc = "goto"
    /\ LET ok == browsers[calls[c].page] /\ scrapers[calls[c].inst].page # 0
           after == IF ok
                    THEN [calls[c] EXCEPT
                            !.pc = "evaluate",
                            !.page = scrapers[calls[c].inst].page]
                    ELSE [calls[c] EXCEPT !.pc = "finally",
                                          !.outcome = "failed"]
       IN  calls' = [calls EXCEPT
                        ![c] = FinallyEntry(after, scraperInstance, scrapers)]
    /\ UNCHANGED <<scraperInstance, scrapers, browsers>>
    /\ SUnchanged

\* The last page operation settles and scrape returns its leads or
\* throws: 102-296.
SEvaluate(c) ==
    /\ calls[c].pc = "evaluate"
    /\ LET after == [calls[c] EXCEPT
                        !.pc = "finally",
                        !.outcome = IF browsers[calls[c].page]
                                    THEN "returned" ELSE "failed"]
       IN  calls' = [calls EXCEPT
                        ![c] = FinallyEntry(after, scraperInstance, scrapers)]
    /\ UNCHANGED <<scraperInstance, scrapers, browsers>>
    /\ SUnchanged

\* scraperInstance.close() resolves and the wrapper clears scraperInstance:
\* 56-62 and 311-312.
SClosed(c) ==
    /\ calls[c].pc = "closing"
    /\ IF calls[c].closes # 0
       THEN /\ browsers' = [browsers EXCEPT ![calls[c].closes] = FALSE]
            /\ scrapers' = [scrapers EXCEPT ![calls[c].inst] = NewScraper]
       ELSE UNCHANGED <<browsers, scrapers>>
    /\ scraperInstance' = 0
    /\ calls' = [calls EXCEPT ![c].pc = calls[c].outcome]
    /\ SUnchanged

SNext ==
    \E c \in Callers :
        \/ SCall(c)
        \/ SLaunched(c)
        \/ SPage(c)
        \/ SSetup(c)
        \/ SGoto(c)
        \/ SEvaluate(c)
        \/ SClosed(c)

ScraperSpec == SInit /\ [][SNext]_vars

\* The calls that have a page or browser operation pending.
Operating == {c \in Callers : calls[c].pc \in {"newpage", "setup", "goto",
                                                "evaluate"}}

\* C29: overlapping calls of one adapter are isolated: the browser a call
\* has an operation pending on is not closed by the cleanup of another
\* call, no call fails, and once every call has finished scraperInstance
\* is null and every browser that was launched is closed.
C29_InvocationsIsolated ==
    /\ \A c \in Operating : browsers[calls[c].page]
    /\ \A c \in Callers : calls[c].pc # "failed"
    /\ (\A c \in Callers : calls[c].pc \in {"returned", "failed"}) =>
            /\ scraperInstance = 0
            /\ \A b \in DOMAIN browsers : ~browsers[b]



\* ======================================= requests served at the same time
\* part_001 450-657: two or more POST /api/scraper/all-sources requests
\* whose save loops run against one Lead collection. Each await of a loop
\* hands the event loop to the other requests.
NumRuns == 2

Runners == 1..NumRuns

\* A request whose adapters have all settled, google_maps with `value`.
SettledRun(value) ==
    [NewRun("all-sources", TRUE, MaxLimit) EXCEPT
        !.pc = "scraping",
        !.adapters = [s \in Sources |->
                        IF s = "google_maps" THEN Promise("fulfilled", value)
                        ELSE Promise("fulfilled", <<>>)]]

\* Every handler has merged and filtered its batch and entered its loop.
RInit ==
    /\ AnalyzerIdle
    /\ DedupIdle
    /\ NormIdle
    /\ LimIdle
    /\ ScraperIdle
    /\ run = [pc |-> "none"]
    /\ readyState = 1
    /\ store \in InitialStores
    /\ runs \in [Runners -> {OnSettled(SettledRun(v), 1) :
                                v \in AdapterValues(MaxLimit)}]

RUnchanged ==
    UNCHANGED <<SAMBA_API_KEY, today, quotaVars, inv, requestsToday, hLead,
                hOut, dedupVars, normVars, run, readyState, limVars,
                scraperVars>>

\* Lead.findOne of request k settles: part_001 586-617.
RFindOneSettles(k, throws) ==
    /\ runs[k].pc = "findOne"
    /\ LET r == runs[k]
           existing == FindOne(store, r.uniqueLeads[r.i])
           n == OnFindOne(r, existing, SAMBA_API_KEY, today,
                          dailyWindowDate, dailyRequestCount)
       IN  runs' = [runs EXCEPT
                        ![k] = IF throws THEN OnLeadError(r)
                               ELSE Looked(n.run, r.i, existing)]
    /\ UNCHANGED store
    /\ RUnchanged

\* lead.save() of request k settles: part_001 617-625.
RSaveSettles(k, throws) ==
    /\ runs[k].pc = "save"
    /\ LET n == OnSave(runs[k], store, throws)
       IN  /\ runs' = [runs EXCEPT ![k] = n.run]
           /\ store' = n.store
    /\ RUnchanged

RNext ==
    \E k \in Runners, throws \in BOOLEAN :
        \/ RFindOneSettles(k, throws)
        \/ RSaveSettles(k, throws)

ConcurrentSpec == RInit /\ [][RNext]_vars

\* Two documents the requests have inserted, the earlier first.
InsertedPairs ==
    {pr \in (DOMAIN store) \X (DOMAIN store) :
        pr[1] < pr[2] /\ store[pr[1]].idx > 0 /\ store[pr[2]].idx > 0}

\* C30: however the save loops of concurrent requests interleave, no two
\* of the leads they insert have the same phone or the same business name.
C30_NoDuplicatesAcrossRuns ==
    \A pr \in InsertedPairs :
        /\ Truthy(store[pr[2]].phone) =>
                store[pr[2]].phone # store[pr[1]].phone
        /\ store[pr[2]].businessName # store[pr[1]].businessName

====
